---- MODULE Spec2Model ----
(***************************************************************************)
(* Model of the chat statistics backend: chatParser.js (analyzeChat,       *)
(* parseTelegramChat, storeAnalysisInMongoDB) and server.js (the query and *)
(* trigger routes).                                                        *)
(*                                                                         *)
(* JavaScript strings are modelled as sequences of Unicode code points,    *)
(* JavaScript objects as sequences of [k, v] entries in insertion order    *)
(* (the order Object.keys / Object.entries / Object.values enumerate       *)
(* non-index string keys in).                                              *)
(***************************************************************************)
EXTENDS Integers, Sequences, FiniteSets, TLC

VARIABLES
    chatData,       \* the parsed export handed to analyzeChat
    timeZone,       \* the process's local time, in minutes east of UTC
    monthlyStats,   \* analyzeChat's local accumulator object
    idx,            \* position of forEach in chatData.messages
    pc,             \* where the analyzeChat invocation is
    runs,           \* number of analyzeChat invocations started
    results,        \* the values analyzeChat has returned, oldest first
    lastMsg,        \* the entry the forEach callback ran on last
    prevStats,      \* monthlyStats before that callback
    store,          \* the ChatAnalysis collection, in natural order
    stored,         \* the analyses the upsert has saved, oldest first
    parser,         \* the parseTelegramChat call in flight, or how the last one ended
    request,        \* the HTTP request being handled, or handled last
    response        \* the response sent to it, if any yet

vars == <<chatData, timeZone, monthlyStats, idx, pc, runs, results, lastMsg,
          prevStats, store, stored, parser, request, response>>

aggVars == <<chatData, timeZone, monthlyStats, idx, pc, runs, results, lastMsg, prevStats>>
srvVars == <<store, stored, parser, request, response>>

-----------------------------------------------------------------------------
(* Bounds of the model.                                                    *)

MaxMsgs == 3
MaxRuns == 2
MaxStores == 3

\* The local time zones the process is run in, as minutes east of UTC; an
\* offset that is the same all year.
TimeZones == {0 - 480, 120}

-----------------------------------------------------------------------------
(* JavaScript values.                                                      *)

\* A JSON value: t is its type tag, the other fields hold the payload.
JV(t, s, n, b, segs) == [t |-> t, s |-> s, n |-> n, b |-> b, segs |-> segs]
Undefined == JV("undef", <<>>, 0, FALSE, <<>>)
Null == JV("null", <<>>, 0, FALSE, <<>>)
Str(s) == JV("str", s, 0, FALSE, <<>>)
Num(n) == JV("num", <<>>, n, FALSE, <<>>)
Bool(b) == JV("bool", <<>>, 0, b, <<>>)
\* A structured text: an array of plain strings and {type, text} entities.
Arr(segs) == JV("arr", <<>>, 0, FALSE, segs)
PlainSeg(s) == [kind |-> "str", type |-> <<>>, text |-> s]
EntitySeg(ty, s) == [kind |-> "obj", type |-> ty, text |-> s]

\* ToBoolean: what `if (v)`, `v || w`, `v && w` test.
Truthy(v) ==
    CASE v.t = "undef" -> FALSE
      [] v.t = "null" -> FALSE
      [] v.t = "str" -> v.s # <<>>
      [] v.t = "num" -> v.n # 0
      [] v.t = "bool" -> v.b
      [] OTHER -> TRUE

\* v === "<string s>"
StrictEqStr(v, s) == v.t = "str" /\ v.s = s

-----------------------------------------------------------------------------
(* Strings.                                                                *)

RECURSIVE Concat(_)
Concat(ss) == IF ss = <<>> THEN <<>> ELSE Head(ss) \o Concat(Tail(ss))

\* String.prototype.toLowerCase, which the code applies to the keywords only:
\* the Basic Latin, Latin-1 and Cyrillic capitals.
ToLowerCase(c) ==
    IF c >= 65 /\ c <= 90 THEN c + 32
    ELSE IF c >= 192 /\ c <= 222 /\ c # 215 THEN c + 32
    ELSE IF c >= 1040 /\ c <= 1071 THEN c + 32
    ELSE IF c >= 1024 /\ c <= 1039 THEN c + 80
    ELSE IF c >= 1120 /\ c <= 1153 /\ c % 2 = 0 THEN c + 1
    ELSE IF c >= 1162 /\ c <= 1215 /\ c % 2 = 0 THEN c + 1
    ELSE IF c = 1216 THEN 1231
    ELSE IF c >= 1217 /\ c <= 1230 /\ c % 2 = 1 THEN c + 1
    ELSE IF c >= 1232 /\ c <= 1327 /\ c % 2 = 0 THEN c + 1
    ELSE c

\* The small letters of the Basic Multilingual Plane whose toUpperCase is one
\* code unit and not an ASCII one (Unicode 17.0, the engine's), Basic Latin
\* and U+0430 to U+045F left to Canonicalize: <<first, last, step, capital - small>> stands for first,
\* first + step, ... up to last.
CaseRuns ==
    {<<181, 181, 1, 743>>, <<224, 246, 1, 0 - 32>>, <<248, 254, 1, 0 - 32>>,
     <<255, 255, 1, 121>>, <<257, 303, 2, 0 - 1>>, <<307, 311, 2, 0 - 1>>,
     <<314, 328, 2, 0 - 1>>, <<331, 375, 2, 0 - 1>>, <<378, 382, 2, 0 - 1>>,
     <<384, 384, 1, 195>>, <<387, 389, 2, 0 - 1>>, <<392, 392, 1, 0 - 1>>,
     <<396, 396, 1, 0 - 1>>, <<402, 402, 1, 0 - 1>>, <<405, 405, 1, 97>>,
     <<409, 409, 1, 0 - 1>>, <<410, 410, 1, 163>>,
     <<411, 411, 1, 42561>>, <<612, 612, 1, 42343>>, <<414, 414, 1, 130>>,
     <<417, 421, 2, 0 - 1>>, <<424, 424, 1, 0 - 1>>, <<429, 429, 1, 0 - 1>>,
     <<432, 432, 1, 0 - 1>>, <<436, 438, 2, 0 - 1>>, <<441, 441, 1, 0 - 1>>,
     <<445, 445, 1, 0 - 1>>, <<447, 447, 1, 56>>, <<453, 453, 1, 0 - 1>>,
     <<454, 454, 1, 0 - 2>>, <<456, 456, 1, 0 - 1>>, <<457, 457, 1, 0 - 2>>,
     <<459, 459, 1, 0 - 1>>, <<460, 460, 1, 0 - 2>>, <<462, 476, 2, 0 - 1>>,
     <<477, 477, 1, 0 - 79>>, <<479, 495, 2, 0 - 1>>, <<498, 498, 1, 0 - 1>>,
     <<499, 499, 1, 0 - 2>>, <<501, 501, 1, 0 - 1>>, <<505, 543, 2, 0 - 1>>,
     <<547, 563, 2, 0 - 1>>, <<572, 572, 1, 0 - 1>>, <<575, 576, 1, 10815>>,
     <<578, 578, 1, 0 - 1>>, <<583, 591, 2, 0 - 1>>, <<592, 592, 1, 10783>>,
     <<593, 593, 1, 10780>>, <<594, 594, 1, 10782>>,
     <<595, 595, 1, 0 - 210>>, <<596, 596, 1, 0 - 206>>,
     <<598, 599, 1, 0 - 205>>, <<601, 601, 1, 0 - 202>>,
     <<603, 603, 1, 0 - 203>>, <<604, 604, 1, 42319>>,
     <<608, 608, 1, 0 - 205>>, <<609, 609, 1, 42315>>,
     <<611, 611, 1, 0 - 207>>, <<613, 613, 1, 42280>>,
     <<614, 614, 1, 42308>>, <<616, 616, 1, 0 - 209>>,
     <<617, 617, 1, 0 - 211>>, <<618, 618, 1, 42308>>,
     <<619, 619, 1, 10743>>, <<620, 620, 1, 42305>>,
     <<623, 623, 1, 0 - 211>>, <<625, 625, 1, 10749>>,
     <<626, 626, 1, 0 - 213>>, <<629, 629, 1, 0 - 214>>,
     <<637, 637, 1, 10727>>, <<640, 640, 1, 0 - 218>>,
     <<642, 642, 1, 42307>>, <<643, 643, 1, 0 - 218>>,
     <<647, 647, 1, 42282>>, <<648, 648, 1, 0 - 218>>,
     <<649, 649, 1, 0 - 69>>, <<650, 651, 1, 0 - 217>>,
     <<652, 652, 1, 0 - 71>>, <<658, 658, 1, 0 - 219>>,
     <<669, 669, 1, 42261>>, <<670, 670, 1, 42258>>, <<837, 837, 1, 84>>,
     <<881, 883, 2, 0 - 1>>, <<887, 887, 1, 0 - 1>>, <<891, 893, 1, 130>>,
     <<940, 940, 1, 0 - 38>>, <<941, 943, 1, 0 - 37>>,
     <<945, 961, 1, 0 - 32>>, <<962, 962, 1, 0 - 31>>,
     <<963, 971, 1, 0 - 32>>, <<972, 972, 1, 0 - 64>>,
     <<973, 974, 1, 0 - 63>>, <<976, 976, 1, 0 - 62>>,
     <<977, 977, 1, 0 - 57>>, <<981, 981, 1, 0 - 47>>,
     <<982, 982, 1, 0 - 54>>, <<983, 983, 1, 0 - 8>>,
     <<985, 1007, 2, 0 - 1>>, <<1008, 1008, 1, 0 - 86>>,
     <<1009, 1009, 1, 0 - 80>>, <<1010, 1010, 1, 7>>,
     <<1011, 1011, 1, 0 - 116>>, <<1013, 1013, 1, 0 - 96>>,
     <<1016, 1016, 1, 0 - 1>>, <<1019, 1019, 1, 0 - 1>>,
     <<1121, 1153, 2, 0 - 1>>, <<1163, 1215, 2, 0 - 1>>,
     <<1218, 1230, 2, 0 - 1>>, <<1231, 1231, 1, 0 - 15>>,
     <<1233, 1327, 2, 0 - 1>>, <<1377, 1414, 1, 0 - 48>>,
     <<4304, 4346, 1, 3008>>, <<4349, 4351, 1, 3008>>,
     <<5112, 5117, 1, 0 - 8>>, <<7296, 7296, 1, 0 - 6254>>,
     <<7297, 7297, 1, 0 - 6253>>, <<7298, 7298, 1, 0 - 6244>>,
     <<7299, 7300, 1, 0 - 6242>>, <<7301, 7301, 1, 0 - 6243>>,
     <<7302, 7302, 1, 0 - 6236>>, <<7303, 7303, 1, 0 - 6181>>,
     <<7304, 7304, 1, 35266>>, <<7306, 7306, 1, 0 - 1>>, <<7545, 7545, 1, 35332>>,
     <<7549, 7549, 1, 3814>>, <<7566, 7566, 1, 35384>>,
     <<7681, 7829, 2, 0 - 1>>, <<7835, 7835, 1, 0 - 59>>,
     <<7841, 7935, 2, 0 - 1>>, <<7936, 7943, 1, 8>>, <<7952, 7957, 1, 8>>,
     <<7968, 7975, 1, 8>>, <<7984, 7991, 1, 8>>, <<8000, 8005, 1, 8>>,
     <<8017, 8023, 2, 8>>, <<8032, 8039, 1, 8>>, <<8048, 8049, 1, 74>>,
     <<8050, 8053, 1, 86>>, <<8054, 8055, 1, 100>>, <<8056, 8057, 1, 128>>,
     <<8058, 8059, 1, 112>>, <<8060, 8061, 1, 126>>, <<8112, 8113, 1, 8>>,
     <<8126, 8126, 1, 0 - 7205>>, <<8144, 8145, 1, 8>>, <<8160, 8161, 1, 8>>,
     <<8165, 8165, 1, 7>>, <<8526, 8526, 1, 0 - 28>>,
     <<8560, 8575, 1, 0 - 16>>, <<8580, 8580, 1, 0 - 1>>,
     <<9424, 9449, 1, 0 - 26>>, <<11312, 11359, 1, 0 - 48>>,
     <<11361, 11361, 1, 0 - 1>>, <<11365, 11365, 1, 0 - 10795>>,
     <<11366, 11366, 1, 0 - 10792>>, <<11368, 11372, 2, 0 - 1>>,
     <<11379, 11379, 1, 0 - 1>>, <<11382, 11382, 1, 0 - 1>>,
     <<11393, 11491, 2, 0 - 1>>, <<11500, 11502, 2, 0 - 1>>,
     <<11507, 11507, 1, 0 - 1>>, <<11520, 11557, 1, 0 - 7264>>,
     <<11559, 11559, 1, 0 - 7264>>, <<11565, 11565, 1, 0 - 7264>>,
     <<42561, 42605, 2, 0 - 1>>, <<42625, 42651, 2, 0 - 1>>,
     <<42787, 42799, 2, 0 - 1>>, <<42803, 42863, 2, 0 - 1>>,
     <<42874, 42876, 2, 0 - 1>>, <<42879, 42887, 2, 0 - 1>>,
     <<42892, 42892, 1, 0 - 1>>, <<42897, 42899, 2, 0 - 1>>,
     <<42900, 42900, 1, 48>>, <<42903, 42921, 2, 0 - 1>>,
     <<42933, 42947, 2, 0 - 1>>, <<42952, 42954, 2, 0 - 1>>,
     <<42957, 42971, 2, 0 - 1>>,
     <<42998, 42998, 1, 0 - 1>>, <<43859, 43859, 1, 0 - 928>>,
     <<43888, 43967, 1, 0 - 38864>>, <<65345, 65370, 1, 0 - 32>>}

\* toUpperCase of a small letter listed in table, the code point itself for
\* every other one.
UpperIn(table, c) ==
    LET hits == {r \in table : c >= r[1] /\ c <= r[2] /\ (c - r[1]) % r[3] = 0}
        moved(r) == c + r[4]
    IN IF hits = {} THEN c ELSE moved(CHOOSE r \in hits : TRUE)
TableUpper(c) == UpperIn(CaseRuns, c)

\* The Canonicalize step of an ignoreCase RegExp without the u flag: the
\* code unit is replaced by its toUpperCase when that is one code unit and
\* does not take a non-ASCII unit into ASCII.  Basic Latin and the Russian
\* and Ukrainian letters are decided first, the table holds every other
\* cased letter.  A code point beyond U+FFFF is two surrogate units, and
\* those have no case.
Canonicalize(c) ==
    IF c < 97 \/ (c > 122 /\ c < 181) \/ c > 65535 THEN c
    ELSE IF c <= 122 \/ (c >= 1072 /\ c <= 1103) THEN c - 32
    ELSE IF c >= 1104 /\ c <= 1119 THEN c - 80
    ELSE TableUpper(c)

LowerStr(s) == [k \in 1..Len(s) |-> ToLowerCase(s[k])]

IsDigit(c) == c >= 48 /\ c <= 57

\* String(n) for an integer n >= 0.
RECURSIVE ToDigits(_)
ToDigits(n) == IF n < 10 THEN <<48 + n>> ELSE ToDigits(n \div 10) \o <<48 + (n % 10)>>

\* String(n) for an integer n.
NumberToString(n) == IF n < 0 THEN <<45>> \o ToDigits(0 - n) ELSE ToDigits(n)

\* s.padStart(2, "0")
PadStart2(s) == IF Len(s) >= 2 THEN s ELSE <<48>> \o s

\* s.startsWith(p)
StartsWith(s, p) == Len(s) >= Len(p) /\ SubSeq(s, 1, Len(p)) = p

\* "NaN"
NaNStr == <<78, 97, 78>>

-----------------------------------------------------------------------------
(* Objects with insertion-ordered keys.                                    *)

Has(obj, k) == \E j \in 1..Len(obj) : obj[j].k = k
IndexOf(obj, k) == CHOOSE j \in 1..Len(obj) : obj[j].k = k
Get(obj, k) == obj[IndexOf(obj, k)].v
\* obj[k] = v: an existing key keeps its place, a new key goes last.
Put(obj, k, v) ==
    IF Has(obj, k)
    THEN [obj EXCEPT ![IndexOf(obj, k)] = [k |-> k, v |-> v]]
    ELSE Append(obj, [k |-> k, v |-> v])

-----------------------------------------------------------------------------
(* new Date(message.date): the date string parser.                         *)
(*                                                                         *)
(* The string is cut into tokens; an ES5 date-time string                  *)
(* ([+-]YYYYYY|YYYY)[-MM[-DD]][THH:mm[:ss[.sss]][Z|+-HH:mm]] is read first *)
(* and, where the string leaves that form before a T was read, the rest is *)
(* read by the legacy rules (words, month names, h:m:s, time zone names,   *)
(* +-hhmm).  Three composers collect the day, the time and the UTC offset. *)

kNone == 2147483646 + 1

Token(k, n, len, ty) == [k |-> k, n |-> n, len |-> len, ty |-> ty]
EndOfInput == Token("end", 0, 0, "")

\* WhiteSpace and LineTerminator code points.
IsWhiteSpaceChar(c) ==
    \/ c \in {9, 11, 12, 32, 160, 5760, 8239, 8287, 12288, 65279}
    \/ (c >= 8192 /\ c <= 8202)
IsWhiteSpaceOrLineTerminator(c) == IsWhiteSpaceChar(c) \/ c \in {10, 13, 8232, 8233}

\* A NUL ends the input.
RECURSIVE InputEnd(_, _)
InputEnd(s, p) == IF p > Len(s) \/ s[p] = 0 THEN p - 1 ELSE InputEnd(s, p + 1)

RECURSIVE SkipZeros(_, _)
SkipZeros(s, p) == IF p <= Len(s) /\ s[p] = 48 THEN SkipZeros(s, p + 1) ELSE p

\* ReadUnsignedNumeral: leading zeros are skipped, then at most nine digits
\* count towards the value.
RECURSIVE ReadUnsignedNumeral(_, _, _, _)
ReadUnsignedNumeral(s, p, n, i) ==
    IF p <= Len(s) /\ IsDigit(s[p])
    THEN ReadUnsignedNumeral(s, p + 1, IF i < 9 THEN n * 10 + (s[p] - 48) ELSE n, i + 1)
    ELSE [n |-> n, pos |-> p]

\* ReadWord: the run of characters from 'A' up that are not white space.
RECURSIVE WordEnd(_, _)
WordEnd(s, p) ==
    IF p <= Len(s) /\ s[p] >= 65 /\ ~IsWhiteSpaceChar(s[p]) THEN WordEnd(s, p + 1) ELSE p

\* c | 0x20
AsciiAlphaToLower(c) == IF (c \div 32) % 2 = 0 THEN c + 32 ELSE c

\* The first three characters of a word, lower-cased, 0 where it is shorter.
WordPrefix(s, p, e) ==
    [j \in 1..3 |-> IF p + j - 1 < e THEN AsciiAlphaToLower(s[p + j - 1]) ELSE 0]

\* jan .. dec, am, pm, ut, utc, z, gmt, cdt .. pst, t
KeywordTable ==
    << [pre |-> <<106, 97, 110>>, ty |-> "MONTH_NAME", val |-> 1],
       [pre |-> <<102, 101, 98>>, ty |-> "MONTH_NAME", val |-> 2],
       [pre |-> <<109, 97, 114>>, ty |-> "MONTH_NAME", val |-> 3],
       [pre |-> <<97, 112, 114>>, ty |-> "MONTH_NAME", val |-> 4],
       [pre |-> <<109, 97, 121>>, ty |-> "MONTH_NAME", val |-> 5],
       [pre |-> <<106, 117, 110>>, ty |-> "MONTH_NAME", val |-> 6],
       [pre |-> <<106, 117, 108>>, ty |-> "MONTH_NAME", val |-> 7],
       [pre |-> <<97, 117, 103>>, ty |-> "MONTH_NAME", val |-> 8],
       [pre |-> <<115, 101, 112>>, ty |-> "MONTH_NAME", val |-> 9],
       [pre |-> <<111, 99, 116>>, ty |-> "MONTH_NAME", val |-> 10],
       [pre |-> <<110, 111, 118>>, ty |-> "MONTH_NAME", val |-> 11],
       [pre |-> <<100, 101, 99>>, ty |-> "MONTH_NAME", val |-> 12],
       [pre |-> <<97, 109, 0>>, ty |-> "AM_PM", val |-> 0],
       [pre |-> <<112, 109, 0>>, ty |-> "AM_PM", val |-> 12],
       [pre |-> <<117, 116, 0>>, ty |-> "TIME_ZONE_NAME", val |-> 0],
       [pre |-> <<117, 116, 99>>, ty |-> "TIME_ZONE_NAME", val |-> 0],
       [pre |-> <<122, 0, 0>>, ty |-> "TIME_ZONE_NAME", val |-> 0],
       [pre |-> <<103, 109, 116>>, ty |-> "TIME_ZONE_NAME", val |-> 0],
       [pre |-> <<99, 100, 116>>, ty |-> "TIME_ZONE_NAME", val |-> 0 - 5],
       [pre |-> <<99, 115, 116>>, ty |-> "TIME_ZONE_NAME", val |-> 0 - 6],
       [pre |-> <<101, 100, 116>>, ty |-> "TIME_ZONE_NAME", val |-> 0 - 4],
       [pre |-> <<101, 115, 116>>, ty |-> "TIME_ZONE_NAME", val |-> 0 - 5],
       [pre |-> <<109, 100, 116>>, ty |-> "TIME_ZONE_NAME", val |-> 0 - 6],
       [pre |-> <<109, 115, 116>>, ty |-> "TIME_ZONE_NAME", val |-> 0 - 7],
       [pre |-> <<112, 100, 116>>, ty |-> "TIME_ZONE_NAME", val |-> 0 - 7],
       [pre |-> <<112, 115, 116>>, ty |-> "TIME_ZONE_NAME", val |-> 0 - 8],
       [pre |-> <<116, 0, 0>>, ty |-> "TIME_SEPARATOR", val |-> 0] >>

\* KeywordTable::Lookup in table: the first entry with the same three
\* characters; a word longer than three characters can only be a month name.
LookupIn(table, pre, len) ==
    LET hits == {i \in 1..Len(table) :
                    /\ table[i].pre = pre
                    /\ (len <= 3 \/ table[i].ty = "MONTH_NAME")}
        first(i) == Token("kw", table[i].val, len, table[i].ty)
    IN IF hits = {} THEN Token("kw", 0, len, "INVALID")
       ELSE first(CHOOSE i \in hits : \A j \in hits : i <= j)
Lookup(pre, len) == LookupIn(KeywordTable, pre, len)

\* SkipParentheses: from an opening parenthesis to the one that closes it,
\* or to the end of the input.
RECURSIVE ParenthesesEnd(_, _, _)
ParenthesesEnd(s, p, balance) ==
    LET b == IF s[p] = 41 THEN balance - 1
             ELSE IF s[p] = 40 THEN balance + 1 ELSE balance
    IN IF b > 0 /\ p < Len(s) THEN ParenthesesEnd(s, p + 1, b) ELSE p + 1

\* DateStringTokenizer::Scan, repeated to the end of the input.
RECURSIVE Scan(_, _)
Scan(s, p) ==
    IF p > Len(s) THEN <<>>
    ELSE LET c == s[p]
         IN IF IsDigit(c)
            THEN LET r == ReadUnsignedNumeral(s, SkipZeros(s, p), 0, 0)
                 IN <<Token("num", r.n, r.pos - p, "")>> \o Scan(s, r.pos)
            ELSE IF c \in {58, 45, 43, 46, 41}
            THEN <<Token("sym", c, 1, "")>> \o Scan(s, p + 1)
            ELSE IF c >= 65 /\ ~IsWhiteSpaceChar(c)
            THEN LET e == WordEnd(s, p)
                 IN <<Lookup(WordPrefix(s, p, e), e - p)>> \o Scan(s, e)
            ELSE IF IsWhiteSpaceOrLineTerminator(c)
            THEN <<Token("ws", 0, 1, "")>> \o Scan(s, p + 1)
            ELSE IF c = 40
            THEN <<Token("unk", 0, 1, "")>> \o Scan(s, ParenthesesEnd(s, p, 0))
            ELSE <<Token("unk", 0, 1, "")>> \o Scan(s, p + 1)

Tokenize(s) == Scan(SubSeq(s, 1, InputEnd(s, 1)), 1)

\* scanner.Peek() with the scanner before token p.
Peek(T, p) == IF p >= 1 /\ p <= Len(T) THEN T[p] ELSE EndOfInput
IsSymbol(t, c) == t.k = "sym" /\ t.n = c
IsAsciiSign(t) == t.k = "sym" /\ t.n \in {43, 45}
AsciiSign(t) == 44 - t.n
IsNumber(t) == t.k = "num"
IsFixedNumber(t, len) == t.k = "num" /\ t.len = len
IsKeywordType(t, ty) == t.k = "kw" /\ t.ty = ty
IsKeywordZ(t) == IsKeywordType(t, "TIME_ZONE_NAME") /\ t.len = 1

Between(x, lo, hi) == x >= lo /\ x <= hi
IsMonth(x) == Between(x, 1, 12)
IsDay(x) == Between(x, 1, 31)
IsHour(x) == Between(x, 0, 23)
IsHour12(x) == Between(x, 0, 12)
IsMinute(x) == Between(x, 0, 59)
IsSecond(x) == Between(x, 0, 59)
IsMillisecond(x) == Between(x, 0, 999)

RECURSIVE Pow10(_)
Pow10(k) == IF k = 0 THEN 1 ELSE 10 * Pow10(k - 1)

\* ReadMilliseconds: the fraction cut or padded to three digits.
ReadMilliseconds(t) ==
    IF t.len = 1 THEN t.n * 100
    ELSE IF t.len = 2 THEN t.n * 10
    ELSE IF t.len > 3 THEN t.n \div Pow10((IF t.len > 9 THEN 9 ELSE t.len) - 3)
    ELSE t.n

\* DayComposer, TimeComposer and TimeZoneComposer, all empty.
EmptyComposers ==
    [day |-> <<>>, named |-> kNone, iso |-> FALSE,
     time |-> <<>>, hourOffset |-> kNone,
     tzSign |-> kNone, tzHour |-> kNone, tzMin |-> kNone]

\* tz.Set(offset_in_hours)
TzSet(st, h) ==
    [st EXCEPT !.tzSign = IF h < 0 THEN 0 - 1 ELSE 1,
               !.tzHour = IF h < 0 THEN 0 - h ELSE h,
               !.tzMin = 0]
TzIsExpecting(st, n) == st.tzHour # kNone /\ st.tzMin = kNone /\ IsMinute(n)
TzIsUTC(st) == st.tzHour = 0 /\ st.tzMin = 0
TimeIsExpecting(st, n) ==
    \/ Len(st.time) = 1 /\ IsMinute(n)
    \/ Len(st.time) = 2 /\ IsSecond(n)
    \/ Len(st.time) = 3 /\ IsMillisecond(n)
\* time.AddFinal(n): n, then zeros up to the fourth slot.
TimeAddFinal(time, n) ==
    LET t == IF Len(time) < 4 THEN Append(time, n) ELSE time
    IN [j \in 1..4 |-> IF j <= Len(t) THEN t[j] ELSE 0]

Handed(kind, tok, pos, st) == [kind |-> kind, tok |-> tok, pos |-> pos, st |-> st]
InvalidToken == Handed("invalid", 0, 0, EmptyComposers)

\* The optional UTC offset of an ES5 string, Z or +-hh:mm or +-hhmm, and
\* the end of the input after it; the scanner is before token q.
ES5TimeZone(T, q, st) ==
    LET t == Peek(T, q)
        closeAt(r, s2) ==
            IF Peek(T, r).k = "end" THEN Handed("end", r, r, s2) ELSE InvalidToken
    IN IF IsKeywordZ(t) THEN closeAt(q + 1, TzSet(st, 0))
       ELSE IF IsSymbol(t, 43) \/ IsSymbol(t, 45)
       THEN LET s1 == [st EXCEPT !.tzSign = IF t.n = 43 THEN 1 ELSE 0 - 1]
                n1 == Peek(T, q + 1)
            IN IF IsFixedNumber(n1, 4)
               THEN IF ~IsHour(n1.n \div 100) \/ ~IsMinute(n1.n % 100) THEN InvalidToken
                    ELSE closeAt(q + 2, [s1 EXCEPT !.tzHour = n1.n \div 100,
                                                   !.tzMin = n1.n % 100])
               ELSE IF ~IsFixedNumber(n1, 2) \/ ~IsHour(n1.n) THEN InvalidToken
               ELSE IF ~IsSymbol(Peek(T, q + 2), 58) THEN InvalidToken
               ELSE IF \/ ~IsFixedNumber(Peek(T, q + 3), 2)
                       \/ ~IsMinute(Peek(T, q + 3).n) THEN InvalidToken
               ELSE closeAt(q + 4, [s1 EXCEPT !.tzHour = n1.n,
                                              !.tzMin = Peek(T, q + 3).n])
       ELSE closeAt(q, st)

\* The time of an ES5 string after the T, HH:mm[:ss[.sss]], 24 only as
\* 24:00[:00[.000]]: the numbers read and the scanner's place after them.
\* The scanner is before token p.
ES5Clock(T, p) ==
    LET h == Peek(T, p)
        m == Peek(T, p + 2)
        s == Peek(T, p + 4)
        f == Peek(T, p + 6)
        is24 == h.n = 24
        bad == [ok |-> FALSE, pos |-> 0, time |-> <<>>]
    IN IF ~IsFixedNumber(h, 2) \/ ~Between(h.n, 0, 24) THEN bad
       ELSE IF ~IsSymbol(Peek(T, p + 1), 58) THEN bad
       ELSE IF ~IsFixedNumber(m, 2) \/ ~IsMinute(m.n) \/ (is24 /\ m.n > 0) THEN bad
       ELSE IF ~IsSymbol(Peek(T, p + 3), 58)
       THEN [ok |-> TRUE, pos |-> p + 3, time |-> <<h.n, m.n>>]
       ELSE IF ~IsFixedNumber(s, 2) \/ ~IsSecond(s.n) \/ (is24 /\ s.n > 0) THEN bad
       ELSE IF ~IsSymbol(Peek(T, p + 5), 46)
       THEN [ok |-> TRUE, pos |-> p + 5, time |-> <<h.n, m.n, s.n>>]
       ELSE IF ~IsNumber(f) \/ (is24 /\ f.n > 0) THEN bad
       ELSE [ok |-> TRUE, pos |-> p + 7,
             time |-> <<h.n, m.n, s.n, ReadMilliseconds(f)>>]

\* The time as read, then the UTC offset.
ES5ZoneAfter(T, st, clock) ==
    IF ~clock.ok THEN InvalidToken
    ELSE ES5TimeZone(T, clock.pos, [st EXCEPT !.time = clock.time])
ES5Time(T, p, st) == ES5ZoneAfter(T, st, ES5Clock(T, p))

\* The end of an ES5 string: a date alone is read as UTC, and the date is
\* marked as an ISO date.
ES5Done(r) ==
    IF r.kind # "end" THEN r
    ELSE Handed("end", r.tok, r.pos,
                [(IF r.st.tzHour = kNone /\ r.st.time = <<>>
                  THEN TzSet(r.st, 0) ELSE r.st) EXCEPT !.iso = TRUE])

\* After the date of an ES5 string, the scanner before token p: a T starts
\* the time, the end of the input ends the string, anything else goes to
\* the legacy rules.
ES5AfterDate(T, p, st) ==
    IF IsKeywordType(Peek(T, p), "TIME_SEPARATOR") THEN ES5Done(ES5Time(T, p + 1, st))
    ELSE IF Peek(T, p).k # "end" THEN Handed("token", p, p + 1, st)
    ELSE ES5Done(Handed("end", p, p, st))

\* [-MM[-DD]] after the year, the scanner before token p: the numbers read,
\* and the place where the string left the form, if it did.
ES5MonthDayRead(T, p) ==
    LET mo == Peek(T, p + 1)
        da == Peek(T, p + 3)
    IN IF ~IsSymbol(Peek(T, p), 45) THEN [left |-> FALSE, pos |-> p, read |-> <<>>]
       ELSE IF ~IsFixedNumber(mo, 2) \/ ~IsMonth(mo.n)
       THEN [left |-> TRUE, pos |-> p + 1, read |-> <<>>]
       ELSE IF ~IsSymbol(Peek(T, p + 2), 45)
       THEN [left |-> FALSE, pos |-> p + 2, read |-> <<mo.n>>]
       ELSE IF ~IsFixedNumber(da, 2) \/ ~IsDay(da.n)
       THEN [left |-> TRUE, pos |-> p + 3, read |-> <<mo.n>>]
       ELSE [left |-> FALSE, pos |-> p + 4, read |-> <<mo.n, da.n>>]
ES5DateRead(T, st, md) ==
    IF md.left THEN Handed("token", md.pos, md.pos + 1, [st EXCEPT !.day = @ \o md.read])
    ELSE ES5AfterDate(T, md.pos, [st EXCEPT !.day = @ \o md.read])
ES5MonthDay(T, p, st) == ES5DateRead(T, st, ES5MonthDayRead(T, p))

\* The year of an ES5 string, four digits or a sign and six: the year read
\* and the scanner's place, or the token the string left the form at.  A
\* year -000000 hands back an unknown token; the sign stands for it here,
\* the legacy rules passing over either while no number has been read.
ES5Year(T) ==
    LET a == Peek(T, 1)
        b == Peek(T, 2)
    IN IF IsAsciiSign(a)
       THEN IF ~IsFixedNumber(b, 6) THEN [left |-> TRUE, pos |-> 2, year |-> <<>>]
            ELSE IF AsciiSign(a) < 0 /\ b.n = 0 THEN [left |-> TRUE, pos |-> 3, year |-> <<>>]
            ELSE [left |-> FALSE, pos |-> 3, year |-> <<AsciiSign(a) * b.n>>]
       ELSE IF IsFixedNumber(a, 4) THEN [left |-> FALSE, pos |-> 2, year |-> <<a.n>>]
       ELSE [left |-> TRUE, pos |-> 2, year |-> <<>>]
ES5AfterYear(T, y) ==
    IF y.left THEN Handed("token", 1, y.pos, EmptyComposers)
    ELSE ES5MonthDay(T, y.pos, [EmptyComposers EXCEPT !.day = y.year])

\* ParseES5DateTime: "end" when the whole input was an ES5 string, "invalid"
\* when it broke off after the T, otherwise the token the legacy rules go on
\* with and the scanner's place after it.
ParseES5DateTime(T) == ES5AfterYear(T, ES5Year(T))

Going(ok, pos, st, hasNum) == [ok |-> ok, pos |-> pos, st |-> st, hasNum |-> hasNum]
Failed == Going(FALSE, 0, EmptyComposers, FALSE)

\* The legacy rules on a number token, the scanner before token q.
LegacyNumber(T, t, q, st) ==
    LET n == t.n
        dot == IsSymbol(Peek(T, q), 46)
        q1 == IF dot THEN q + 1 ELSE q
    IN IF IsSymbol(Peek(T, q), 58)
       THEN IF IsSymbol(Peek(T, q + 1), 58)
            THEN IF st.time # <<>> THEN Failed
                 ELSE Going(TRUE, q + 2, [st EXCEPT !.time = <<n, 0>>], TRUE)
            ELSE IF Len(st.time) >= 4 THEN Failed
                 ELSE Going(TRUE,
                            IF IsSymbol(Peek(T, q + 1), 46) THEN q + 2 ELSE q + 1,
                            [st EXCEPT !.time = Append(@, n)], TRUE)
       ELSE IF dot /\ TimeIsExpecting(st, n)
       THEN IF ~IsNumber(Peek(T, q1)) THEN Failed
            ELSE Going(TRUE, q1 + 1,
                       [st EXCEPT !.time =
                           TimeAddFinal(Append(@, n), ReadMilliseconds(Peek(T, q1)))],
                       TRUE)
       ELSE IF TzIsExpecting(st, n)
       THEN Going(TRUE, q1, [st EXCEPT !.tzMin = n], TRUE)
       ELSE IF TimeIsExpecting(st, n)
       THEN LET peek == Peek(T, q1)
            IN IF peek.k \notin {"end", "ws"} /\ ~IsKeywordZ(peek) /\ ~IsAsciiSign(peek)
               THEN Failed
               ELSE Going(TRUE, q1, [st EXCEPT !.time = TimeAddFinal(@, n)], TRUE)
       ELSE IF Len(st.day) >= 3 THEN Failed
       ELSE Going(TRUE,
                  IF IsSymbol(Peek(T, q1), 45) THEN q1 + 1 ELSE q1,
                  [st EXCEPT !.day = Append(@, n)], TRUE)

\* The legacy rules on a word.
LegacyKeyword(T, t, q, st, hasNum) ==
    IF t.ty = "AM_PM" /\ st.time # <<>>
    THEN Going(TRUE, q, [st EXCEPT !.hourOffset = t.n], hasNum)
    ELSE IF t.ty = "MONTH_NAME"
    THEN Going(TRUE, IF IsSymbol(Peek(T, q), 45) THEN q + 1 ELSE q,
               [st EXCEPT !.named = t.n], hasNum)
    ELSE IF t.ty = "TIME_ZONE_NAME" /\ hasNum
    THEN Going(TRUE, q, TzSet(st, t.n), hasNum)
    ELSE IF hasNum \/ IsNumber(Peek(T, q)) THEN Failed
    ELSE Going(TRUE, q, st, hasNum)

\* The legacy rules on a sign after UTC or after a time: a UTC offset.
LegacySign(T, t, q, st) ==
    LET num == IsNumber(Peek(T, q))
        n == IF num THEN Peek(T, q).n ELSE 0
        len == IF num THEN Peek(T, q).len ELSE 0
        q1 == IF num THEN q + 1 ELSE q
        s1 == [st EXCEPT !.tzSign = AsciiSign(t)]
    IN IF IsSymbol(Peek(T, q1), 58)
       THEN Going(TRUE, q1, [s1 EXCEPT !.tzHour = n, !.tzMin = kNone], TRUE)
       ELSE IF len \in {1, 2}
       THEN Going(TRUE, q1, [s1 EXCEPT !.tzHour = n, !.tzMin = 0], TRUE)
       ELSE IF len \in {3, 4}
       THEN Going(TRUE, q1, [s1 EXCEPT !.tzHour = n \div 100, !.tzMin = n % 100], TRUE)
       ELSE Failed

\* One turn of the legacy loop on token t, the scanner before token q.
LegacyToken(T, t, q, st, hasNum) ==
    IF IsNumber(t) THEN LegacyNumber(T, t, q, st)
    ELSE IF t.k = "kw" THEN LegacyKeyword(T, t, q, st, hasNum)
    ELSE IF IsAsciiSign(t) /\ (TzIsUTC(st) \/ st.time # <<>>) THEN LegacySign(T, t, q, st)
    ELSE IF (IsAsciiSign(t) \/ IsSymbol(t, 41)) /\ hasNum THEN Failed
    ELSE Going(TRUE, q, st, hasNum)

\* The legacy loop from token t on, to the end of the input.
RECURSIVE LegacyLoop(_, _, _, _, _)
RECURSIVE LegacyNext(_, _)
LegacyLoop(T, t, q, st, hasNum) ==
    IF t.k = "end" THEN Going(TRUE, q, st, hasNum)
    ELSE LegacyNext(T, LegacyToken(T, t, q, st, hasNum))
LegacyNext(T, r) ==
    IF ~r.ok THEN r ELSE LegacyLoop(T, Peek(T, r.pos), r.pos + 1, r.st, r.hasNum)

\* DayComposer::Write: year, month and day of the numbers read.  Missing
\* numbers are 1; without a month name the order is Y-M-D for an ES5 date or
\* when the first number cannot be a day, else M-D-Y; years 0..49 and 50..99
\* of a legacy date are 20xx and 19xx.
DayWrite(st) ==
    IF st.day = <<>> THEN [ok |-> FALSE, year |-> 0, month |-> 0, day |-> 0]
    ELSE LET comp == [j \in 1..3 |-> IF j <= Len(st.day) THEN st.day[j] ELSE 1]
             ymd == IF st.named = kNone
                    THEN IF st.iso \/ ~IsDay(comp[1])
                         THEN <<comp[1], comp[2], comp[3]>>
                         ELSE <<comp[3], comp[1], comp[2]>>
                    ELSE IF ~IsDay(comp[1])
                         THEN <<comp[1], st.named, comp[2]>>
                         ELSE <<comp[2], st.named, comp[1]>>
             year == IF st.iso THEN ymd[1]
                     ELSE IF Between(ymd[1], 0, 49) THEN ymd[1] + 2000
                     ELSE IF Between(ymd[1], 50, 99) THEN ymd[1] + 1900
                     ELSE ymd[1]
         IN [ok |-> IsMonth(ymd[2]) /\ IsDay(ymd[3]),
             year |-> year, month |-> ymd[2], day |-> ymd[3]]

\* TimeComposer::Write: milliseconds into the day.  Missing parts are 0, am
\* and pm shift a 12-hour clock, and hour 24 stands only with all else 0.
TimeWrite(st) ==
    LET comp == [j \in 1..4 |-> IF j <= Len(st.time) THEN st.time[j] ELSE 0]
        badOffset == st.hourOffset # kNone /\ ~IsHour12(comp[1])
        hour == IF st.hourOffset # kNone /\ ~badOffset
                THEN (comp[1] % 12) + st.hourOffset ELSE comp[1]
        inRange == /\ IsHour(hour) /\ IsMinute(comp[2])
                   /\ IsSecond(comp[3]) /\ IsMillisecond(comp[4])
        midnight == hour = 24 /\ comp[2] = 0 /\ comp[3] = 0 /\ comp[4] = 0
    IN IF badOffset \/ ~(inRange \/ midnight) THEN [ok |-> FALSE, ms |-> 0]
       ELSE [ok |-> TRUE,
             ms |-> ((hour * 60 + comp[2]) * 60 + comp[3]) * 1000 + comp[4]]

\* Unsigned 32-bit arithmetic on two 16-bit halves: x * k and a + b, both
\* modulo 2^32, for x below 2^30 and k at most 3600.
Half == 256 * 256
Mul32(x, k) ==
    LET low == (x % Half) * k
    IN [hi |-> ((x \div Half) * k + low \div Half) % Half, lo |-> low % Half]
Add32(a, b) ==
    [hi |-> (a.hi + b.hi + (a.lo + b.lo) \div Half) % Half, lo |-> (a.lo + b.lo) % Half]

\* TimeZoneComposer::Write: the UTC offset in seconds, or local time when
\* no offset was read.  The seconds are computed as an unsigned 32-bit
\* number and refused beyond the largest small integer, 2^31 - 1.
TimeZoneWrite(st) ==
    IF st.tzSign = kNone THEN [ok |-> TRUE, local |-> TRUE, seconds |-> 0]
    ELSE LET h == IF st.tzHour = kNone THEN 0 ELSE st.tzHour
             m == IF st.tzMin = kNone THEN 0 ELSE st.tzMin
             total == Add32(Mul32(h, 3600), Mul32(m, 60))
         IN IF total.hi >= Half \div 2 THEN [ok |-> FALSE, local |-> FALSE, seconds |-> 0]
            ELSE [ok |-> TRUE, local |-> FALSE,
                  seconds |-> st.tzSign * (total.hi * Half + total.lo)]

\* The legacy rules take over where the ES5 form was left.
AfterES5(T, es5) ==
    IF es5.kind = "invalid" THEN Failed
    ELSE IF es5.kind = "end" THEN Going(TRUE, es5.pos, es5.st, TRUE)
    ELSE LegacyLoop(T, Peek(T, es5.tok), es5.pos, es5.st, es5.st.day # <<>>)
ParseTokens(T) == AfterES5(T, ParseES5DateTime(T))

Fields(ok, day, time, zone) ==
    [ok |-> ok /\ day.ok /\ time.ok /\ zone.ok,
     year |-> day.year, month |-> day.month, day |-> day.day,
     ms |-> time.ms, local |-> zone.local, seconds |-> zone.seconds]
Compose(run) == Fields(run.ok, DayWrite(run.st), TimeWrite(run.st), TimeZoneWrite(run.st))

\* DateParser::Parse: the fields of the date string s, or a failure.
Parse(s) == Compose(ParseTokens(Tokenize(s)))

-----------------------------------------------------------------------------
(* new Date(message.date): the time value, and getFullYear(), getMonth().  *)

MsPerDay == 24 * 60 * 60 * 1000
\* The time values of a Date run from -MaxDay to MaxDay days around the epoch.
MaxDay == 100 * 1000 * 1000
\* MakeDay takes years from -MaxYear to MaxYear.
MaxYear == 1000 * 1000

\* Day number of a calendar day, 1970-01-01 being day 0.
DaysFromCivil(y, m, d) ==
    LET y1 == IF m <= 2 THEN y - 1 ELSE y
        era == y1 \div 400
        yoe == y1 - era * 400
        doy == (153 * (IF m > 2 THEN m - 3 ELSE m + 9) + 2) \div 5 + d - 1
        doe == yoe * 365 + yoe \div 4 - yoe \div 100 + doy
    IN era * 146097 + doe - 719468

\* Year and month (1..12) of a day number.
CivilFromDays(z) ==
    LET z1 == z + 719468
        era == z1 \div 146097
        doe == z1 - era * 146097
        yoe == (doe - doe \div 1460 + doe \div 36524 - doe \div 146096) \div 365
        doy == doe - (365 * yoe + yoe \div 4 - yoe \div 100)
        mp == (5 * doy + 2) \div 153
        m == IF mp < 10 THEN mp + 3 ELSE mp - 9
    IN [year |-> yoe + era * 400 + (IF m <= 2 THEN 1 ELSE 0), month |-> m]

\* A time value: NaN, or a day number and the milliseconds into that day.
NaNTime == [nan |-> TRUE, day |-> 0, ms |-> 0]
\* TimeClip
TimeClip(day, ms) ==
    IF day < 0 - MaxDay \/ day > MaxDay \/ (day = MaxDay /\ ms > 0) THEN NaNTime
    ELSE [nan |-> FALSE, day |-> day, ms |-> ms]

SecondsPerDay == 24 * 60 * 60
\* day and ms moved by a number of seconds, ms brought back into the day.
ShiftSeconds(day, ms, seconds) ==
    LET ms1 == ms + (seconds % SecondsPerDay) * 1000
    IN [day |-> day + (seconds \div SecondsPerDay) + (ms1 \div MsPerDay),
        ms |-> ms1 % MsPerDay]

\* MakeDay and MakeTime of the fields f, local time turned into UTC by the
\* zone's offset (minutes east of UTC) when the string names no offset of
\* its own.
TimeOfFields(f, zone) ==
    IF ~f.ok \/ f.year < 0 - MaxYear \/ f.year > MaxYear THEN NaNTime
    ELSE LET utc == ShiftSeconds(DaysFromCivil(f.year, f.month, 1) + f.day - 1,
                                 f.ms,
                                 0 - (IF f.local THEN zone * 60 ELSE f.seconds))
         IN TimeClip(utc.day, utc.ms)

\* ParseDateTimeString
ParseDateTimeString(s, zone) == TimeOfFields(Parse(s), zone)

\* Array.prototype.toString of a structured value: the elements joined by
\* commas, an object element being "[object Object]".
RECURSIVE JoinComma(_)
JoinComma(segs) ==
    IF segs = <<>> THEN <<>>
    ELSE LET one(seg) == IF seg.kind = "str" THEN seg.text
                         ELSE <<91, 111, 98, 106, 101, 99, 116, 32,
                                79, 98, 106, 101, 99, 116, 93>>
         IN IF Len(segs) = 1 THEN one(segs[1])
            ELSE one(Head(segs)) \o <<44>> \o JoinComma(Tail(segs))

\* The time value of new Date(v): a string (or an array, by its string) is
\* parsed, undefined is NaN, and null, booleans and numbers are taken as
\* milliseconds since the epoch.
TimeValue(v, zone) ==
    IF v.t \in {"str", "arr"}
    THEN ParseDateTimeString(IF v.t = "str" THEN v.s ELSE JoinComma(v.segs), zone)
    ELSE IF v.t = "undef" THEN NaNTime
    ELSE IF v.t = "null" THEN TimeClip(0, 0)
    ELSE IF v.t = "bool" THEN TimeClip(0, IF v.b THEN 1 ELSE 0)
    ELSE TimeClip(v.n \div MsPerDay, v.n % MsPerDay)

InvalidDate == [valid |-> FALSE, fullYear |-> 0, month |-> 0]

\* The date with time value tv, with its getFullYear() and getMonth()
\* (0-based) in local time; an Invalid Date when tv is NaN.
DateOfTime(tv, zone) ==
    IF tv.nan THEN InvalidDate
    ELSE LET ym == CivilFromDays(ShiftSeconds(tv.day, tv.ms, zone * 60).day)
         IN [valid |-> TRUE, fullYear |-> ym.year, month |-> ym.month - 1]

\* new Date(v) in a process whose local time is zone minutes east of UTC.
DateIn(v, zone) == DateOfTime(TimeValue(v, zone), zone)

\* `${messageDate.getFullYear()}-${String(messageDate.getMonth() + 1).padStart(2, "0")}`
\* getFullYear() and getMonth() of an Invalid Date are NaN, and NaN + 1 is NaN.
MonthKeyOf(date) ==
    (IF date.valid THEN NumberToString(date.fullYear) ELSE NaNStr)
    \o <<45>>
    \o PadStart2(IF date.valid THEN ToDigits(date.month + 1) ELSE NaNStr)

-----------------------------------------------------------------------------
(* The dates of the exports.                                               *)

\* "2024-01-05T10:00:00", "2024-02-01T00:00:00": local date-times, the form
\* the export writes
DateJan == Str(<<50, 48, 50, 52, 45, 48, 49, 45, 48, 53, 84, 49, 48, 58, 48, 48, 58, 48, 48>>)
DateFeb == Str(<<50, 48, 50, 52, 45, 48, 50, 45, 48, 49, 84, 48, 48, 58, 48, 48, 58, 48, 48>>)
\* "not a date"
DateBad == Str(<<110, 111, 116, 32, 97, 32, 100, 97, 116, 101>>)
\* "2024-01-31T24:00:00", the midnight that ends January
DateRoll == Str(<<50, 48, 50, 52, 45, 48, 49, 45, 51, 49, 84, 50, 52, 58, 48, 48, 58, 48, 48>>)
\* "2024-01-01", a date alone: midnight UTC, December west of Greenwich
DateOnly == Str(<<50, 48, 50, 52, 45, 48, 49, 45, 48, 49>>)
\* "2024-01-31T23:00:00Z": February east of UTC+1
DateUtc ==
    Str(<<50, 48, 50, 52, 45, 48, 49, 45, 51, 49, 84, 50, 51, 58, 48, 48, 58, 48, 48, 90>>)
\* "Jan 5, 2024", a legacy form, local time
DateLegacy == Str(<<74, 97, 110, 32, 53, 44, 32, 50, 48, 50, 52>>)

\* The date fields the exports carry, null and a missing field among them.
ExportDates ==
    {DateJan, DateFeb, DateBad, DateRoll, DateOnly, DateUtc, DateLegacy, Null, Undefined}

\* new Date of each of them in each zone, worked out once.
DatesOf == [zone \in TimeZones |-> [v \in ExportDates |-> DateIn(v, zone)]]

\* new Date(message.date) in a process whose local time zone is zone.
NewDate(v, zone) ==
    IF v \in ExportDates /\ zone \in TimeZones THEN DatesOf[zone][v] ELSE DateIn(v, zone)

-----------------------------------------------------------------------------
(* JSON.stringify(message.text) of a text that is not a string.            *)

\* One digit of a \u00XX escape.
HexDigit(d) == IF d < 10 THEN 48 + d ELSE 87 + d

\* QuoteJSONString on one code point: the quote, the backslash, the control
\* characters and a surrogate are escaped.  A string here is a sequence of
\* code points, a surrogate pair being the one point beyond U+FFFF it stands
\* for, so a surrogate among them is a lone one.
JsonEscapeChar(c) ==
    IF c = 34 THEN <<92, 34>>
    ELSE IF c = 92 THEN <<92, 92>>
    ELSE IF c = 8 THEN <<92, 98>>
    ELSE IF c = 9 THEN <<92, 116>>
    ELSE IF c = 10 THEN <<92, 110>>
    ELSE IF c = 12 THEN <<92, 102>>
    ELSE IF c = 13 THEN <<92, 114>>
    ELSE IF c < 32 THEN <<92, 117, 48, 48, HexDigit(c \div 16), HexDigit(c % 16)>>
    ELSE IF c >= 55296 /\ c <= 57343
    THEN <<92, 117, HexDigit(c \div 4096), HexDigit((c \div 256) % 16),
           HexDigit((c \div 16) % 16), HexDigit(c % 16)>>
    ELSE <<c>>
JsonQuote(s) == <<34>> \o Concat([k \in 1..Len(s) |-> JsonEscapeChar(s[k])]) \o <<34>>

\* "text" or {"type":"...","text":"..."}
JsonSeg(seg) ==
    IF seg.kind = "str" THEN JsonQuote(seg.text)
    ELSE <<123, 34, 116, 121, 112, 101, 34, 58>> \o JsonQuote(seg.type)
         \o <<44, 34, 116, 101, 120, 116, 34, 58>> \o JsonQuote(seg.text)
         \o <<125>>

RECURSIVE JoinSegs(_)
JoinSegs(segs) ==
    IF segs = <<>> THEN <<>>
    ELSE IF Len(segs) = 1 THEN JsonSeg(segs[1])
    ELSE JsonSeg(Head(segs)) \o <<44>> \o JoinSegs(Tail(segs))

\* JSON.stringify of the values a truthy text can be: an array, a number,
\* true.
JSONStringify(v) ==
    CASE v.t = "arr" -> <<91>> \o JoinSegs(v.segs) \o <<93>>
      [] v.t = "num" -> NumberToString(v.n)
      [] v.t = "bool" -> (IF v.b THEN <<116, 114, 117, 101>> ELSE <<102, 97, 108, 115, 101>>)
      [] v.t = "null" -> <<110, 117, 108, 108>>
      [] OTHER -> JsonQuote(v.s)

\* typeof message.text === "string" ? message.text : JSON.stringify(message.text)
MessageText(v) == IF v.t = "str" THEN v.s ELSE JSONStringify(v)

-----------------------------------------------------------------------------
(* Keyword and emoji scanning.                                             *)

\* ["Добраніч", "Солодких", "Доброго ранку", "Скучив"]
keywords ==
    << <<1044, 1086, 1073, 1088, 1072, 1085, 1110, 1095>>,
       <<1057, 1086, 1083, 1086, 1076, 1082, 1080, 1093>>,
       <<1044, 1086, 1073, 1088, 1086, 1075, 1086, 32, 1088, 1072, 1085, 1082, 1091>>,
       <<1057, 1082, 1091, 1095, 1080, 1074>> >>

\* A string with every character canonicalized.
RECURSIVE CanonicalStr(_)
CanonicalStr(s) ==
    IF s = <<>> THEN <<>> ELSE <<Canonicalize(Head(s))>> \o CanonicalStr(Tail(s))

\* The ignoreCase pattern kw matches text at position p: character by
\* character the canonical forms (ctext of the text, ckw of the pattern)
\* are the same.
MatchAt(ctext, p, ckw) ==
    /\ p + Len(ckw) - 1 <= Len(ctext)
    /\ \A k \in 1..Len(ckw) : ctext[p + k - 1] = ckw[k]

\* A global match: each match consumes its span and the scan resumes after it.
RECURSIVE MatchCountFrom(_, _, _)
MatchCountFrom(ctext, p, ckw) ==
    IF p + Len(ckw) - 1 > Len(ctext) THEN 0
    ELSE IF MatchAt(ctext, p, ckw) THEN 1 + MatchCountFrom(ctext, p + Len(ckw), ckw)
    ELSE MatchCountFrom(ctext, p + 1, ckw)

\* (messageText.match(new RegExp(keyword, "gi")) || []).length
MatchCount(text, kw) == MatchCountFrom(CanonicalStr(text), 1, CanonicalStr(kw))

\* The part of the emoji repertoire the model's texts draw on:
\* 😀 🎉 🔥 🥳 🎈 👍, the skin tone modifiers, and 👍 + modifier as one emoji.
EmojiChars == {128512, 127881, 128293, 129395, 127880, 128077}
EmojiModifiers == 127995..127999
EmojiModifierBases == {128077}

\* Length of the emoji emojiRegex() matches at position p, 0 when none.
EmojiLenAt(text, p) ==
    IF /\ text[p] \in EmojiModifierBases
       /\ p < Len(text)
       /\ text[p + 1] \in EmojiModifiers
    THEN 2
    ELSE IF text[p] \in EmojiChars \cup EmojiModifiers THEN 1
    ELSE 0

\* The successive regex.exec(messageText) matches, in order of appearance.
RECURSIVE EmojiMatchesFrom(_, _)
EmojiMatchesFrom(text, p) ==
    IF p > Len(text) THEN <<>>
    ELSE LET n == EmojiLenAt(text, p)
         IN IF n = 0 THEN EmojiMatchesFrom(text, p + 1)
            ELSE <<SubSeq(text, p, p + n - 1)>> \o EmojiMatchesFrom(text, p + n)

EmojiMatches(text) == EmojiMatchesFrom(text, 1)

-----------------------------------------------------------------------------
(* analyzeChat: the forEach callback.                                      *)

\* "message", "photo"
MessageType == <<109, 101, 115, 115, 97, 103, 101>>
PhotoMedia == <<112, 104, 111, 116, 111>>

\* keywords.reduce((obj, keyword) => { obj[keyword.toLowerCase()] = 0; ... }, {})
RECURSIVE ZeroKeywords(_)
ZeroKeywords(j) ==
    IF j = 0 THEN <<>>
    ELSE Put(ZeroKeywords(j - 1), LowerStr(keywords[j]), 0)

NewBucket(monthKey) ==
    [month |-> monthKey,
     messageCount |-> 0,
     photoCount |-> 0,
     keywords |-> ZeroKeywords(Len(keywords)),
     emojis |-> <<>>,
     topEmojis |-> <<>>]

\* Fault variant: the photo_id field is not looked at.
IsPhotoWithoutId(m) ==
    \/ Truthy(m.photo)
    \/ (Truthy(m.media_type) /\ StrictEqStr(m.media_type, PhotoMedia))

\* message.photo || (message.media_type && message.media_type === "photo")
\*               || message.photo_id
IsPhoto(m) ==
    \/ Truthy(m.photo)
    \/ (Truthy(m.media_type) /\ StrictEqStr(m.media_type, PhotoMedia))
    \/ Truthy(m.photo_id)

\* Fault variant: the counter is overwritten by the new matches.
OverwriteCount(old, n) == n

\* keywords[key] += matches.length
AddCount(old, n) == old + n

\* if (matches) keywords[key] += matches.length, for n matches
AddMatches(kwObj, key, n) ==
    IF n > 0 THEN Put(kwObj, key, AddCount(Get(kwObj, key), n)) ELSE kwObj

\* keywords.forEach: add each keyword's matches in text to its counter.
RECURSIVE CountKeywords(_, _, _)
CountKeywords(kwObj, text, j) ==
    IF j > Len(keywords) THEN kwObj
    ELSE CountKeywords(AddMatches(kwObj, LowerStr(keywords[j]), MatchCount(text, keywords[j])),
                       text, j + 1)

\* emojis[emoji] = (emojis[emoji] || 0) + 1, for each match in turn.
RECURSIVE CountEmojis(_, _)
CountEmojis(emObj, matches) ==
    IF matches = <<>> THEN emObj
    ELSE LET e == Head(matches)
         IN CountEmojis(Put(emObj, e, (IF Has(emObj, e) THEN Get(emObj, e) ELSE 0) + 1),
                        Tail(matches))

\* if (message.text): the keywords and emojis of the text are counted.
CountText(b, messageText) ==
    [b EXCEPT !.keywords = CountKeywords(@, messageText, 1),
              !.emojis = CountEmojis(@, EmojiMatches(messageText))]

\* The callback from the bucket on, for a message whose key is monthKey.
CountMessage(stats, m, monthKey) ==
    LET s1 == IF Has(stats, monthKey) THEN stats
              ELSE Put(stats, monthKey, NewBucket(monthKey))
        b1 == Get(s1, monthKey)
        b2 == [b1 EXCEPT !.messageCount = @ + 1,
                         !.photoCount = IF IsPhoto(m) THEN @ + 1 ELSE @]
    IN Put(s1, monthKey,
           IF Truthy(m.text) THEN CountText(b2, MessageText(m.text)) ELSE b2)

\* The callback on an entry that is an object, in a process whose local
\* time zone is zone.
ProcessMessage(stats, m, zone) ==
    IF ~StrictEqStr(m.type, MessageType) THEN stats
    ELSE CountMessage(stats, m, MonthKeyOf(NewDate(m.date, zone)))

-----------------------------------------------------------------------------
(* analyzeChat: top emojis and formatting.                                 *)

TopEmojiLimit == 4

\* Fault variant: an unstable sort, x goes before the elements it ties with.
InsertBeforeTies(sorted, x) ==
    LET k == Cardinality({j \in 1..Len(sorted) : sorted[j].count > x.count})
    IN SubSeq(sorted, 1, k) \o <<x>> \o SubSeq(sorted, k + 1, Len(sorted))

\* One step of the stable sort by (a, b) => b.count - a.count: x goes after
\* every element whose count is not smaller.
InsertByCount(sorted, x) ==
    LET k == Cardinality({j \in 1..Len(sorted) : sorted[j].count >= x.count})
    IN SubSeq(sorted, 1, k) \o <<x>> \o SubSeq(sorted, k + 1, Len(sorted))

RECURSIVE SortByCountDesc(_)
SortByCountDesc(arr) ==
    IF arr = <<>> THEN <<>>
    ELSE InsertByCount(SortByCountDesc(SubSeq(arr, 1, Len(arr) - 1)), arr[Len(arr)])

\* Object.entries(emojiCounts).map(([emoji, count]) => ({emoji, count}))
EmojiArray(emObj) == [j \in 1..Len(emObj) |-> [emoji |-> emObj[j].k, count |-> emObj[j].v]]

\* arr.slice(0, n)
SliceTo(arr, n) == SubSeq(arr, 1, IF Len(arr) < n THEN Len(arr) ELSE n)

TopEmojis(emObj) == SliceTo(SortByCountDesc(EmojiArray(emObj)), TopEmojiLimit)

\* Fault variant: keywords that were never matched are left out.
FormatNonZeroKeywords(kwObj) ==
    SelectSeq([j \in 1..Len(kwObj) |-> [name |-> kwObj[j].k, value |-> kwObj[j].v]],
              LAMBDA e : e.value # 0)

\* Object.entries(keywords).map(([keyword, count]) => ({name: keyword, value: count}))
FormatKeywords(kwObj) == [j \in 1..Len(kwObj) |-> [name |-> kwObj[j].k, value |-> kwObj[j].v]]

\* topEmojis.map((item) => ({name: item.emoji, value: item.count}))
FormatEmojis(top) == [j \in 1..Len(top) |-> [name |-> top[j].emoji, value |-> top[j].count]]

FinalizeBucket(b) ==
    LET top == TopEmojis(b.emojis)
    IN [month |-> b.month,
        messageCount |-> b.messageCount,
        photoCount |-> b.photoCount,
        keywords |-> b.keywords,
        emojis |-> b.emojis,
        topEmojis |-> top,
        keywordsFormatted |-> FormatKeywords(b.keywords),
        emojisFormatted |-> FormatEmojis(top)]

\* Object.keys(monthlyStats).forEach(...)
FinalizeAll(stats) == [j \in 1..Len(stats) |-> [k |-> stats[j].k, v |-> FinalizeBucket(stats[j].v)]]

\* The object analyzeChat returns.
AnalysisOf(cd, stats) ==
    [chatName |-> cd.name,
     chatId |-> cd.id,
     totalMessages |-> Len(cd.messages),
     monthlyStats |-> stats]

\* Fault variant: the accumulator outlives the call.
StaleStats == monthlyStats

\* const monthlyStats = {} at the start of each call
FreshStats == <<>>

\* The whole forEach from entry j on: reading .type of a null entry throws
\* a TypeError, which ends the loop and the call.
RECURSIVE ForEachFrom(_, _, _, _)
ForEachFrom(stats, msgs, j, zone) ==
    IF j > Len(msgs) THEN [threw |-> FALSE, stats |-> stats]
    ELSE IF msgs[j].json = "null" THEN [threw |-> TRUE, stats |-> stats]
    ELSE ForEachFrom(ProcessMessage(stats, msgs[j], zone), msgs, j + 1, zone)

\* What analyzeChat returns, or that it threw, after the forEach ended as r.
AnalysisAfter(cd, r) ==
    IF r.threw THEN [threw |-> TRUE, value |-> AnalysisOf(cd, <<>>)]
    ELSE [threw |-> FALSE, value |-> AnalysisOf(cd, FinalizeAll(r.stats))]

\* analyzeChat(chatData) as one call.
analyzeChat(cd, zone) == AnalysisAfter(cd, ForEachFrom(<<>>, cd.messages, 1, zone))

-----------------------------------------------------------------------------
(* The exports the model analyzes.                                         *)

Entry(type, date, text, photo, mediaType, photoId) ==
    [json |-> "object", type |-> type, date |-> date, text |-> text,
     photo |-> photo, media_type |-> mediaType, photo_id |-> photoId]
\* A JSON null among the messages.
NullEntry ==
    [json |-> "null", type |-> Undefined, date |-> Undefined, text |-> Undefined,
     photo |-> Undefined, media_type |-> Undefined, photo_id |-> Undefined]

TypeMessage == Str(MessageType)
\* "service"
TypeService == Str(<<115, 101, 114, 118, 105, 99, 101>>)

\* "Добраніч 😀 Добраніч"
TextGoodNight ==
    Str(<<1044, 1086, 1073, 1088, 1072, 1085, 1110, 1095, 32, 128512, 32,
          1044, 1086, 1073, 1088, 1072, 1085, 1110, 1095>>)
\* "Дᲂбраніч 😀 ДОБРАНІЧ", the first о being U+1C82
TextFolded ==
    Str(<<1044, 7298, 1073, 1088, 1072, 1085, 1110, 1095, 32, 128512, 32,
          1044, 1054, 1041, 1056, 1040, 1053, 1030, 1063>>)
\* "🎉🔥🎉🔥😀 СКУЧИВ"
TextParty ==
    Str(<<127881, 128293, 127881, 128293, 128512, 32,
          1057, 1050, 1059, 1063, 1048, 1042>>)
\* "😀🎉🔥🥳🥳🎈🎈": the emoji seen last are the most frequent ones
TextSeven == Str(<<128512, 127881, 128293, 129395, 129395, 127880, 127880>>)
\* ["солодких\t", {"type": "bold", "text": "Доброго ранку 👍🏽"}]
TextStructured ==
    Arr(<<PlainSeg(<<1089, 1086, 1083, 1086, 1076, 1082, 1080, 1093, 9>>),
          EntitySeg(<<98, 111, 108, 100>>,
                    <<1044, 1086, 1073, 1088, 1086, 1075, 1086, 32,
                      1088, 1072, 1085, 1082, 1091, 32, 128077, 127997>>)>>)

\* "photos/1.jpg", "photo", "video_file"
PhotoPath == Str(<<112, 104, 111, 116, 111, 115, 47, 49, 46, 106, 112, 103>>)
MediaPhoto == Str(PhotoMedia)
MediaVideo == Str(<<118, 105, 100, 101, 111, 95, 102, 105, 108, 101>>)

TextEntries ==
    {Entry(TypeMessage, DateJan, TextFolded, Undefined, Undefined, Undefined),
     Entry(TypeMessage, DateFeb, TextParty, Undefined, Undefined, Undefined),
     Entry(TypeMessage, DateFeb, TextSeven, Str(<<>>), MediaVideo, Num(0))}

\* Text-less messages, one for each of the three photo indicators.
PhotoEntries ==
    {Entry(TypeMessage, DateOnly, Undefined, Bool(TRUE), Undefined, Undefined),
     Entry(TypeMessage, DateRoll, Undefined, Undefined, MediaPhoto, Undefined),
     Entry(TypeMessage, DateLegacy, Str(<<>>), Undefined, Undefined, Num(7))}

OtherEntries ==
    {Entry(TypeService, DateJan, TextGoodNight, PhotoPath, Undefined, Undefined),
     Entry(TypeMessage, DateBad, TextStructured, Undefined, MediaPhoto, Undefined),
     NullEntry}

Entries == TextEntries \cup PhotoEntries \cup OtherEntries

SeqsUpTo(S, n) == UNION {[1..k -> S] : k \in 0..n}

\* "Chat"
ChatName == Str(<<67, 104, 97, 116>>)

Exports == {[name |-> ChatName, id |-> 1, messages |-> ms] : ms \in SeqsUpTo(Entries, MaxMsgs)}

\* The exports analyzed more than once.
RerunEntries ==
    {Entry(TypeMessage, DateJan, TextGoodNight, Undefined, Undefined, Undefined),
     Entry(TypeMessage, Null, TextParty, PhotoPath, Undefined, Undefined),
     Entry(TypeMessage, DateUtc, TextSeven, Undefined, Undefined, Num(7)),
     Entry(TypeMessage, DateBad, TextStructured, PhotoPath, Undefined, Undefined),
     NullEntry}
RerunExports ==
    {[name |-> ChatName, id |-> 1, messages |-> ms] : ms \in SeqsUpTo(RerunEntries, MaxMsgs)}

-----------------------------------------------------------------------------
(* The aggregation pass as a state machine.                                *)

\* No parseTelegramChat call yet.
NoParser ==
    [phase |-> "idle", analysis |-> <<>>, ended |-> "never", main |-> FALSE, try |-> "none"]
\* No request received yet.
NoRequest ==
    [route |-> "none", param |-> <<>>, phase |-> "none", found |-> <<>>,
     rejected |-> FALSE, fileExists |-> FALSE, parsed |-> FALSE, parseFailed |-> FALSE]
NoResponse == [status |-> 0, error |-> "", list |-> <<>>, detail |-> <<>>]

InitServer ==
    /\ store = <<>>
    /\ stored = <<>>
    /\ parser = NoParser
    /\ request = NoRequest
    /\ response = NoResponse

InitPass ==
    /\ timeZone \in TimeZones
    /\ monthlyStats = <<>>
    /\ idx = 0
    /\ pc = "idle"
    /\ runs = 0
    /\ results = <<>>
    /\ lastMsg = NullEntry
    /\ prevStats = <<>>

Init ==
    /\ chatData \in Exports
    /\ InitPass
    /\ InitServer

InitRerun ==
    /\ chatData \in RerunExports
    /\ InitPass
    /\ InitServer

\* analyzeChat(chatData) is called: a fresh accumulator, forEach at the start.
EnterAnalyzeChat ==
    /\ monthlyStats' = FreshStats
    /\ idx' = 1
    /\ pc' = "forEach"
    /\ runs' = runs + 1
    /\ lastMsg' = NullEntry
    /\ prevStats' = <<>>
    /\ UNCHANGED <<chatData, timeZone, results>>
    /\ UNCHANGED srvVars

\* The first call on the export.
AnalyzeStart ==
    /\ pc = "idle"
    /\ EnterAnalyzeChat

\* A further call on the same export, after the previous one ended.
AnalyzeAgain ==
    /\ pc \in {"done", "threw"}
    /\ runs < MaxRuns
    /\ EnterAnalyzeChat

\* One call of the forEach callback.
ForEachStep ==
    /\ pc = "forEach"
    /\ idx <= Len(chatData.messages)
    /\ LET m == chatData.messages[idx]
       IN /\ lastMsg' = m
          /\ prevStats' = monthlyStats
          /\ IF m.json = "null"
             THEN /\ pc' = "threw"
                  /\ UNCHANGED <<monthlyStats, idx>>
             ELSE /\ monthlyStats' = ProcessMessage(monthlyStats, m, timeZone)
                  /\ idx' = idx + 1
                  /\ pc' = pc
    /\ UNCHANGED <<chatData, timeZone, runs, results>>
    /\ UNCHANGED srvVars

\* After the loop: rank and format every bucket, and return.
PostProcess ==
    /\ pc = "forEach"
    /\ idx > Len(chatData.messages)
    /\ monthlyStats' = FinalizeAll(monthlyStats)
    /\ results' = Append(results, AnalysisOf(chatData, monthlyStats'))
    /\ pc' = "done"
    /\ UNCHANGED <<chatData, timeZone, idx, runs, lastMsg, prevStats>>
    /\ UNCHANGED srvVars

Next == AnalyzeStart \/ ForEachStep \/ PostProcess

Spec == Init /\ [][Next]_vars

NextRerun == AnalyzeStart \/ AnalyzeAgain \/ ForEachStep \/ PostProcess

SpecRerun == InitRerun /\ [][NextRerun]_vars

-----------------------------------------------------------------------------
(* storeAnalysisInMongoDB and parseTelegramChat.                           *)

\* One element of monthlyStatsArray.
StatDoc(bucket) ==
    [month |-> bucket.month,
     messageCount |-> bucket.messageCount,
     photoCount |-> bucket.photoCount,
     keywords |-> bucket.keywords,
     keywordsFormatted |-> bucket.keywordsFormatted,
     emojisFormatted |-> bucket.emojisFormatted]

\* Object.values(analysis.monthlyStats).map(...)
MonthlyStatsArray(analysis) ==
    [j \in 1..Len(analysis.monthlyStats) |-> StatDoc(analysis.monthlyStats[j].v)]

NewDoc(analysis) ==
    [chatId |-> analysis.chatId,
     chatName |-> analysis.chatName,
     totalMessages |-> analysis.totalMessages,
     monthlyStats |-> MonthlyStatsArray(analysis)]

\* Fault variant: the new buckets are pushed after the stored ones.
UpsertKeepingBuckets(coll, analysis) ==
    IF \E j \in 1..Len(coll) : coll[j].chatId = analysis.chatId
    THEN LET j == CHOOSE j \in 1..Len(coll) : coll[j].chatId = analysis.chatId
         IN [coll EXCEPT ![j] =
               [@ EXCEPT !.chatName = analysis.chatName,
                         !.totalMessages = analysis.totalMessages,
                         !.monthlyStats = @ \o MonthlyStatsArray(analysis)]]
    ELSE Append(coll, NewDoc(analysis))

\* ChatAnalysis.findOneAndUpdate({chatId}, {chatName, totalMessages,
\* lastUpdated, monthlyStats}, {upsert: true, new: true}); the wall-clock
\* lastUpdated is left out of the documents.
Upsert(coll, analysis) ==
    IF \E j \in 1..Len(coll) : coll[j].chatId = analysis.chatId
    THEN LET j == CHOOSE j \in 1..Len(coll) : coll[j].chatId = analysis.chatId
         IN [coll EXCEPT ![j] =
               [@ EXCEPT !.chatName = analysis.chatName,
                         !.totalMessages = analysis.totalMessages,
                         !.monthlyStats = MonthlyStatsArray(analysis)]]
    ELSE Append(coll, NewDoc(analysis))


-----------------------------------------------------------------------------
(* parseTelegramChat, step by step: the call runs to its first await, and  *)
(* each await hands control back until the database has answered.          *)

\* The exports a file may hold.
TwoMonths ==
    <<Entry(TypeMessage, DateFeb, TextParty, Undefined, Undefined, Undefined),
      Entry(TypeMessage, DateUtc, Undefined, Undefined, MediaPhoto, Undefined)>>
OneMonth == <<Entry(TypeMessage, DateJan, TextGoodNight, PhotoPath, Undefined, Undefined)>>
ServerExports ==
    {[name |-> ChatName, id |-> 1, messages |-> TwoMonths],
     [name |-> Null, id |-> 1, messages |-> OneMonth],
     [name |-> ChatName, id |-> 2, messages |-> OneMonth],
     [name |-> ChatName, id |-> 1, messages |-> <<NullEntry>>]}
Files ==
    {[exists |-> FALSE, data |-> <<>>]}
    \cup {[exists |-> TRUE, data |-> cd] : cd \in ServerExports}

\* analyzeChat of each export in each zone, worked out once.
AnalysesOf == [zone \in TimeZones |-> [cd \in ServerExports |-> analyzeChat(cd, zone)]]

Ended(how) ==
    [phase |-> "idle", analysis |-> <<>>, ended |-> how, main |-> FALSE, try |-> "none"]

\* parseTelegramChat(filePath) up to the first await, with the file as found
\* at filePath and MONGO_URI set or not, in a process whose main module is
\* chatParser.js (asMain) or another one that requires it: readFileSync
\* throws on a missing file, analyzeChat may throw, storeAnalysisInMongoDB
\* throws without MONGO_URI; otherwise mongoose.connect is awaited, the
\* analysis in hand.
parseTelegramChat(file, uriSet, asMain) ==
    /\ parser.phase = "idle"
    /\ Len(stored) < MaxStores
    /\ LET r == AnalysesOf[timeZone][file.data]
       IN parser' = IF ~file.exists \/ ~uriSet \/ r.threw
                    THEN Ended("rejected")
                    ELSE [phase |-> "connect", analysis |-> <<r.value>>,
                          ended |-> "pending", main |-> asMain, try |-> "none"]
    /\ UNCHANGED <<store, stored, request, response>>
    /\ UNCHANGED aggVars

\* mongoose.connect settles: rejected, connection is still null, the
\* finally block closes nothing and the call ends; resolved,
\* storeAnalysisInMongoDB goes on to findOneAndUpdate and awaits it.
ConnectSettles(ok) ==
    /\ parser.phase = "connect"
    /\ parser' = IF ok THEN [parser EXCEPT !.phase = "findOneAndUpdate"]
                 ELSE Ended("rejected")
    /\ UNCHANGED <<store, stored, request, response>>
    /\ UNCHANGED aggVars

\* The try block has ended as how and the finally block runs: with
\* require.main === module the connection is closed and the close awaited,
\* otherwise the call ends as the try block did.
Finally(p, how) ==
    IF p.main THEN [p EXCEPT !.phase = "close", !.try = how] ELSE Ended(how)

\* findOneAndUpdate settles: the collection takes the analysis read before
\* the awaits, or the update is rejected and the collection stays.
FindOneAndUpdateSettles(ok) ==
    /\ parser.phase = "findOneAndUpdate"
    /\ IF ok
       THEN /\ store' = Upsert(store, parser.analysis[1])
            /\ stored' = Append(stored, parser.analysis[1])
            /\ parser' = Finally(parser, "resolved")
       ELSE /\ parser' = Finally(parser, "rejected")
            /\ UNCHANGED <<store, stored>>
    /\ UNCHANGED <<request, response>>
    /\ UNCHANGED aggVars

\* mongoose.connection.close() settles: resolved, the call ends as the try
\* block did; rejected, the call is rejected whatever the try block did.
CloseSettles(ok) ==
    /\ parser.phase = "close"
    /\ parser' = Ended(IF ok THEN parser.try ELSE "rejected")
    /\ UNCHANGED <<store, stored, request, response>>
    /\ UNCHANGED aggVars

-----------------------------------------------------------------------------
(* server.js.                                                              *)

\* What server.js binds with require: express, mongoose, cors,
\* { parseTelegramChat }, path. (dotenv is required for its effect only.)
ServerBindings == {"express", "mongoose", "cors", "parseTelegramChat", "path"}
\* Whether the identifier fs resolves in the analyze handler.
FsInScope == "fs" \in ServerBindings

\* /^\d{4}$/.test(year)
IsYearFormat(s) == Len(s) = 4 /\ \A p \in 1..4 : IsDigit(s[p])
\* /^\d{4}-\d{2}$/.test(monthKey)
IsMonthFormat(s) ==
    Len(s) = 7 /\ (\A p \in {1, 2, 3, 4, 6, 7} : IsDigit(s[p])) /\ s[5] = 45

\* a.localeCompare(b) < 0 on month keys (digits and hyphens).
RECURSIVE ComesBefore(_, _)
ComesBefore(a, b) ==
    IF b = <<>> THEN FALSE
    ELSE IF a = <<>> THEN TRUE
    ELSE IF Head(a) # Head(b) THEN Head(a) < Head(b)
    ELSE ComesBefore(Tail(a), Tail(b))

\* .sort((a, b) => a.month.localeCompare(b.month)), a stable sort.
RECURSIVE SortByMonth(_)
SortByMonth(arr) ==
    IF arr = <<>> THEN <<>>
    ELSE LET front == SortByMonth(SubSeq(arr, 1, Len(arr) - 1))
             x == arr[Len(arr)]
             k == Cardinality({j \in 1..Len(front) : ~ComesBefore(x.month, front[j].month)})
         IN SubSeq(front, 1, k) \o <<x>> \o SubSeq(front, k + 1, Len(front))

\* ChatAnalysis.findOne({}) when it resolves: no document, or one of those
\* stored (the collection's natural order decides which, and nothing fixes
\* it).
FindOne(coll) ==
    IF coll = <<>> THEN {<<>>} ELSE {<<coll[j]>> : j \in 1..Len(coll)}

Reply(status, error, list, detail) ==
    [status |-> status, error |-> error, list |-> list, detail |-> detail]

\* The catch of a query handler.
ServerError == Reply(500, "Server error", <<>>, <<>>)

\* GET /api/statistics/year/:year after the await, with what findOne
\* resolved to.
YearResponse(year, found) ==
    IF found = <<>> THEN Reply(404, "No chat analysis data found", <<>>, <<>>)
    ELSE LET yearPrefix == year \o <<45>>
             kept == SelectSeq(found[1].monthlyStats,
                               LAMBDA stat : StartsWith(stat.month, yearPrefix))
             monthlyData == [j \in 1..Len(kept) |->
                               [month |-> kept[j].month,
                                messageCount |-> kept[j].messageCount]]
         IN Reply(200, "", SortByMonth(monthlyData), <<>>)

\* pairs.reduce((obj, item) => { obj[item.name] = item.value; return obj }, {})
RECURSIVE ToObject(_)
ToObject(pairs) ==
    IF pairs = <<>> THEN <<>>
    ELSE Put(ToObject(SubSeq(pairs, 1, Len(pairs) - 1)),
             pairs[Len(pairs)].name, pairs[Len(pairs)].value)

\* analysis.monthlyStats.find((stat) => stat.month === monthKey)
FindMonth(doc, monthKey) == SelectSeq(doc.monthlyStats, LAMBDA stat : stat.month = monthKey)

\* GET /api/statistics/:monthKey after the await.
MonthResponse(monthKey, found) ==
    IF found = <<>> THEN Reply(404, "No chat analysis data found", <<>>, <<>>)
    ELSE LET hits == FindMonth(found[1], monthKey)
         IN IF hits = <<>>
            THEN Reply(404, "No data found for the specified month", <<>>, <<>>)
            ELSE Reply(200, "", <<>>,
                       <<[month |-> hits[1].month,
                          totalMessages |-> hits[1].messageCount,
                          keywords |-> ToObject(hits[1].keywordsFormatted),
                          emojis |-> ToObject(hits[1].emojisFormatted),
                          memeCount |-> hits[1].photoCount]>>)

\* "-photo-", "/api/placeholder/400/300", "Photo ", " of "
PhotoInfix == <<45, 112, 104, 111, 116, 111, 45>>
PlaceholderUrl ==
    <<47, 97, 112, 105, 47, 112, 108, 97, 99, 101, 104, 111, 108, 100, 101, 114,
      47, 52, 48, 48, 47, 51, 48, 48>>
PhotoWord == <<80, 104, 111, 116, 111, 32>>
OfWord == <<32, 111, 102, 32>>
GalleryLimit == 10
FeaturedLimit == 2

\* Array.from({length: Math.min(photoCount, 10)}, (_, i) => ({id, url, caption}))
GalleryItems(monthKey, photoCount) ==
    [i \in 1..(IF photoCount < GalleryLimit THEN photoCount ELSE GalleryLimit) |->
        [id |-> monthKey \o PhotoInfix \o ToDigits(i),
         url |-> PlaceholderUrl,
         caption |-> PhotoWord \o ToDigits(i) \o OfWord \o ToDigits(photoCount)]]

\* GET /api/gallery/:monthKey after the await.
GalleryResponse(monthKey, found) ==
    IF found = <<>> THEN Reply(404, "No chat analysis data found", <<>>, <<>>)
    ELSE LET hits == FindMonth(found[1], monthKey)
         IN IF hits = <<>>
            THEN Reply(404, "No data found for the specified month", <<>>, <<>>)
            ELSE LET galleryItems == GalleryItems(monthKey, hits[1].photoCount)
                 IN Reply(200, "", <<>>,
                          <<[month |-> monthKey,
                             totalPhotos |-> hits[1].photoCount,
                             featuredPhotos |-> SubSeq(galleryItems, 1,
                                 IF Len(galleryItems) < FeaturedLimit
                                 THEN Len(galleryItems) ELSE FeaturedLimit),
                             gallery |-> galleryItems]>>)

\* A request as its handler starts on it.
Received(route, param, phase) ==
    [route |-> route, param |-> param, phase |-> phase, found |-> <<>>,
     rejected |-> FALSE, fileExists |-> FALSE, parsed |-> FALSE, parseFailed |-> FALSE]

\* A handler is between its await and its reply.
InFlight == request.phase \in {"findOne", "settled"}

\* "result.json" beside the sources, "a.json"
DefaultPath == <<114, 101, 115, 117, 108, 116, 46, 106, 115, 111, 110>>
OtherPath == <<97, 46, 106, 115, 111, 110>>

\* "2024", "2023", "20x4"
YearParams == {<<50, 48, 50, 52>>, <<50, 48, 50, 51>>, <<50, 48, 120, 52>>}
\* "2024-01", "2024-03", "2024-1"
MonthParams ==
    {<<50, 48, 50, 52, 45, 48, 49>>, <<50, 48, 50, 52, 45, 48, 51>>,
     <<50, 48, 50, 52, 45, 49>>}

\* A query handler up to its await: a malformed key is answered 400 at
\* once, otherwise findOne is issued and nothing is sent yet.
AwaitFindOne(route, param, wellFormed, complaint) ==
    /\ ~InFlight
    /\ IF wellFormed
       THEN /\ request' = Received(route, param, "findOne")
            /\ response' = NoResponse
       ELSE /\ request' = Received(route, param, "replied")
            /\ response' = Reply(400, complaint, <<>>, <<>>)
    /\ UNCHANGED <<store, stored, parser>>
    /\ UNCHANGED aggVars

\* GET /api/statistics/year/:year
GetYear(year) == AwaitFindOne("year", year, IsYearFormat(year), "Invalid year format")

\* GET /api/statistics/:monthKey
GetMonth(monthKey) ==
    AwaitFindOne("month", monthKey, IsMonthFormat(monthKey),
                 "Invalid month format. Use YYYY-MM")

\* GET /api/gallery/:monthKey
GetGallery(monthKey) ==
    AwaitFindOne("gallery", monthKey, IsMonthFormat(monthKey),
                 "Invalid month format. Use YYYY-MM")

\* ChatAnalysis.findOne({}) settles: it reads the collection as it is now,
\* or is rejected.
FindOneSettles(ok) ==
    /\ request.phase = "findOne"
    /\ \E found \in FindOne(store) :
          request' = [request EXCEPT !.phase = "settled",
                                     !.found = IF ok THEN found ELSE <<>>,
                                     !.rejected = ~ok]
    /\ UNCHANGED <<store, stored, parser, response>>
    /\ UNCHANGED aggVars

\* A query handler after its await: it replies from what findOne gave it.
ResumeHandler ==
    /\ request.phase = "settled"
    /\ request' = [request EXCEPT !.phase = "replied"]
    /\ response' =
          IF request.rejected THEN ServerError
          ELSE IF request.route = "year" THEN YearResponse(request.param, request.found)
          ELSE IF request.route = "month" THEN MonthResponse(request.param, request.found)
          ELSE GalleryResponse(request.param, request.found)
    /\ UNCHANGED <<store, stored, parser>>
    /\ UNCHANGED aggVars

\* GET /api/health
GetHealth ==
    /\ ~InFlight
    /\ request' = Received("health", <<>>, "replied")
    /\ response' = Reply(200, "", <<>>, <<[status |-> "ok", version |-> "1.0.0"]>>)
    /\ UNCHANGED <<store, stored, parser>>
    /\ UNCHANGED aggVars

\* POST /api/analyze/file with req.body.filePath = bodyPath, a file being at
\* the resolved path or not.  Evaluating fs.existsSync with fs unbound
\* throws a ReferenceError inside the try, and the catch answers 500 before
\* any await: the file is not looked at and parseTelegramChat is not called.
PostAnalyzeFile(bodyPath, fileExists) ==
    /\ ~InFlight
    /\ ~FsInScope
    /\ LET filePath == IF Truthy(bodyPath) THEN bodyPath.s ELSE DefaultPath
       IN request' = [Received("analyze", filePath, "replied")
                        EXCEPT !.fileExists = fileExists]
    /\ response' = Reply(500, "Analysis failed", <<>>, <<>>)
    /\ UNCHANGED <<store, stored, parser>>
    /\ UNCHANGED aggVars

InitIdlePass ==
    /\ chatData = [name |-> Null, id |-> 1, messages |-> <<>>]
    /\ InitPass

InitServerSpec == InitIdlePass /\ InitServer

NextServer ==
    \/ \E file \in Files, uriSet \in BOOLEAN, asMain \in BOOLEAN :
          parseTelegramChat(file, uriSet, asMain)
    \/ \E ok \in BOOLEAN : ConnectSettles(ok)
    \/ \E ok \in BOOLEAN : FindOneAndUpdateSettles(ok)
    \/ \E ok \in BOOLEAN : CloseSettles(ok)
    \/ \E year \in YearParams : GetYear(year)
    \/ \E monthKey \in MonthParams : GetMonth(monthKey)
    \/ \E monthKey \in MonthParams : GetGallery(monthKey)
    \/ \E ok \in BOOLEAN : FindOneSettles(ok)
    \/ ResumeHandler
    \/ GetHealth
    \/ \E bodyPath \in {Undefined, Str(OtherPath)}, fileExists \in BOOLEAN :
          PostAnalyzeFile(bodyPath, fileExists)

SpecServer == InitServerSpec /\ [][NextServer]_vars

-----------------------------------------------------------------------------
(* What the properties are stated in: the input read back, entry by entry. *)

msgs == chatData.messages
IsMessageEntry(e) == e.json = "object" /\ StrictEqStr(e.type, MessageType)
\* new Date of the date of every entry, in the time zone of the process.
EntryDates == [j \in 1..Len(msgs) |-> NewDate(msgs[j].date, timeZone)]
\* The month bucket an entry is counted under.
BucketKeyOf(e) == MonthKeyOf(NewDate(e.date, timeZone))
\* The "message" entries of the export whose date parses, dates being the
\* entries' dates.
DatedEntries(dates) == {j \in 1..Len(msgs) : IsMessageEntry(msgs[j]) /\ dates[j].valid}
\* The entries of the export that belong to bucket key.
EntriesOf(dates, key) ==
    {j \in 1..Len(msgs) : IsMessageEntry(msgs[j]) /\ MonthKeyOf(dates[j]) = key}

RECURSIVE SumMessageCounts(_)
SumMessageCounts(stats) ==
    IF stats = <<>> THEN 0 ELSE Head(stats).v.messageCount + SumMessageCounts(Tail(stats))

SetMin(S) == CHOOSE x \in S : \A y \in S : x <= y

\* The letters that differ only in case from a letter of the keywords, taken
\* to the small letter: the Basic Latin and Cyrillic capitals, and the
\* rounded and tall variants U+1C80 to U+1C86 of в, д, о, с, т, т, ъ.
CyrillicVariants == <<1074, 1076, 1086, 1089, 1090, 1090, 1098>>
CaseFold(c) ==
    IF c >= 65 /\ c <= 90 THEN c + 32
    ELSE IF c >= 1040 /\ c <= 1071 THEN c + 32
    ELSE IF c >= 1024 /\ c <= 1039 THEN c + 80
    ELSE IF c >= 7296 /\ c <= 7302 THEN CyrillicVariants[c - 7295]
    ELSE c

\* Occurrences of keyword kw in text, case-insensitive, leftmost first and
\* non-overlapping: P is the set of positions where kw occurs.
OccurrenceStarts(text, kw) ==
    {p \in 1..Len(text) :
        /\ p + Len(kw) - 1 <= Len(text)
        /\ \A k \in 1..Len(kw) : CaseFold(text[p + k - 1]) = CaseFold(kw[k])}
RECURSIVE GreedyCount(_, _)
GreedyCount(P, len) ==
    IF P = {} THEN 0
    ELSE 1 + GreedyCount({q \in P : q >= SetMin(P) + len}, len)
Occurrences(text, kw) == GreedyCount(OccurrenceStarts(text, kw), Len(kw))

\* The text of entry j as scanned, empty when the entry has none.
ScannedText(j) == IF Truthy(msgs[j].text) THEN MessageText(msgs[j].text) ELSE <<>>

RECURSIVE SumOccurrences(_, _)
SumOccurrences(J, kw) ==
    IF J = {} THEN 0
    ELSE LET j == SetMin(J)
         IN Occurrences(ScannedText(j), kw) + SumOccurrences(J \ {j}, kw)

\* The emoji occurrences of bucket key in pass order.
RECURSIVE EmojiObsFrom(_, _, _)
EmojiObsFrom(dates, key, j) ==
    IF j > Len(msgs) THEN <<>>
    ELSE (IF j \in EntriesOf(dates, key) THEN EmojiMatches(ScannedText(j)) ELSE <<>>)
         \o EmojiObsFrom(dates, key, j + 1)
EmojiObs(dates, key) == EmojiObsFrom(dates, key, 1)
TimesIn(obs, e) == Cardinality({p \in 1..Len(obs) : obs[p] = e})
FirstIn(obs, e) == SetMin({p \in 1..Len(obs) : obs[p] = e})
DistinctIn(obs) == {obs[p] : p \in 1..Len(obs)}

\* The value analyzeChat returned last.
LastResult == results[Len(results)]
Returned == pc = "done"

\* "добраніч", "солодких", "доброго ранку", "скучив"
LowerKeywords ==
    << <<1076, 1086, 1073, 1088, 1072, 1085, 1110, 1095>>,
       <<1089, 1086, 1083, 1086, 1076, 1082, 1080, 1093>>,
       <<1076, 1086, 1073, 1088, 1086, 1075, 1086, 32, 1088, 1072, 1085, 1082, 1091>>,
       <<1089, 1082, 1091, 1095, 1080, 1074>> >>

-----------------------------------------------------------------------------
(* Properties of the aggregation pass.                                     *)

\* The counts of the returned buckets against the entries whose date parses.
OnlyDatedCounted(dates) ==
    /\ SumMessageCounts(LastResult.monthlyStats) = Cardinality(DatedEntries(dates))
    /\ \A b \in 1..Len(LastResult.monthlyStats) :
          \E j \in DatedEntries(dates) :
             MonthKeyOf(dates[j]) = LastResult.monthlyStats[b].k

\* C1: when analyzeChat has returned, the messageCounts of the buckets sum
\* to the number of "message" entries whose date parses, and every bucket is
\* the month of some "message" entry with a parseable date (an entry with an
\* unparseable date is counted nowhere and creates no bucket).
C1_UnparseableDateExcluded == Returned => OnlyDatedCounted(EntryDates)

\* C2: analyzeChat never ends by throwing on a well-formed message sequence:
\* an entry whose processing raises an error is skipped and the call returns.
C2_MalformedEntrySkipped == pc # "threw"

\* The formatted list ef against obs, the emoji occurrences of its bucket.
RanksEmojis(obs, ef) ==
    LET all == DistinctIn(obs)
        shown == {ef[i].name : i \in 1..Len(ef)}
    IN /\ Len(ef) = (IF Cardinality(all) < 4 THEN Cardinality(all) ELSE 4)
       /\ Cardinality(shown) = Len(ef)
       /\ \A i \in 1..Len(ef) :
             ef[i].name \in all /\ ef[i].value = TimesIn(obs, ef[i].name)
       /\ \A i, j \in 1..Len(ef) :
             i < j =>
                \/ ef[i].value > ef[j].value
                \/ /\ ef[i].value = ef[j].value
                   /\ FirstIn(obs, ef[i].name) < FirstIn(obs, ef[j].name)
       /\ all # {} => \A e \in all : ef[1].value >= TimesIn(obs, e)
       /\ \A e \in all \ shown : \A i \in 1..Len(ef) :
             \/ ef[i].value > TimesIn(obs, e)
             \/ /\ ef[i].value = TimesIn(obs, e)
                /\ FirstIn(obs, ef[i].name) < FirstIn(obs, e)
EveryBucketRanks(dates) ==
    \A b \in 1..Len(LastResult.monthlyStats) :
        RanksEmojis(EmojiObs(dates, LastResult.monthlyStats[b].k),
                    LastResult.monthlyStats[b].v.emojisFormatted)

\* C3: in every returned bucket emojisFormatted has min(4, distinct emoji of
\* the bucket) entries, each an emoji of the bucket with its count, ordered
\* by count descending, led by the most frequent emoji; among equal counts
\* the emoji seen first in the pass comes first, in the order and at the cut.
C3_TopEmojis == Returned => EveryBucketRanks(EntryDates)

TiesAtCut(obs, ef) ==
    /\ Cardinality(DistinctIn(obs)) > 4
    /\ Len(ef) = 4
    /\ ef[1].value = ef[2].value
    /\ ef[2].value > ef[3].value
    /\ \E e \in DistinctIn(obs) \ {ef[i].name : i \in 1..4} :
          TimesIn(obs, e) = ef[4].value
\* The order of first appearance is not the order by count: an emoji is
\* seen before a more frequent one, and a most frequent emoji is seen only
\* after four others.
SeenOutOfOrder(obs, ef) ==
    /\ \E e1, e2 \in DistinctIn(obs) :
          FirstIn(obs, e1) < FirstIn(obs, e2) /\ TimesIn(obs, e1) < TimesIn(obs, e2)
    /\ \E e \in DistinctIn(obs) :
          /\ TimesIn(obs, e) = ef[1].value
          /\ Cardinality({d \in DistinctIn(obs) : FirstIn(obs, d) < FirstIn(obs, e)}) >= 4
SomeBucketTies(dates) ==
    \E b \in 1..Len(LastResult.monthlyStats) :
        /\ TiesAtCut(EmojiObs(dates, LastResult.monthlyStats[b].k),
                     LastResult.monthlyStats[b].v.emojisFormatted)
        /\ SeenOutOfOrder(EmojiObs(dates, LastResult.monthlyStats[b].k),
                          LastResult.monthlyStats[b].v.emojisFormatted)

\* C3 witness: a returned bucket with more than four distinct emoji, a tie
\* inside the top four and a tie across the cut, whose most frequent emoji
\* are the ones seen last, so that the list is not in the order of first
\* appearance.
C3_Witness == Returned /\ SomeBucketTies(EntryDates)

\* C4: in every returned bucket keywordsFormatted is, in the order of the
\* fixed keyword list, one {name, value} per keyword: the lowercased keyword
\* and the bucket's count for it, zero included, and nothing else.
C4_KeywordsFormatted ==
    Returned =>
        \A b \in 1..Len(LastResult.monthlyStats) :
            LET bucket == LastResult.monthlyStats[b].v
                kf == bucket.keywordsFormatted
            IN /\ Len(kf) = Len(keywords)
               /\ \A j \in 1..Len(kf) :
                     /\ kf[j].name = LowerKeywords[j]
                     /\ kf[j].value = Get(bucket.keywords, LowerKeywords[j])
                     /\ kf[j].value = SumOccurrences(EntriesOf(EntryDates, bucket.month), keywords[j])

\* C4 witness: a returned bucket where one keyword was counted and another
\* was not.
C4_Witness ==
    /\ Returned
    /\ \E b \in 1..Len(LastResult.monthlyStats) :
          LET kf == LastResult.monthlyStats[b].v.keywordsFormatted
          IN Len(kf) = 4 /\ kf[1].value = 0 /\ kf[4].value > 0

\* C7: every run of analyzeChat on the unchanged export returns the same
\* ChatAnalysis as the first run did.
C7_Idempotent ==
    \A k \in 1..Len(results) : results[k] = results[1]

\* C7 witness: two runs have returned, with buckets holding keyword and
\* emoji counts.
C7_Witness ==
    /\ Len(results) >= 2
    /\ \E b \in 1..Len(results[2].monthlyStats) :
          LET bucket == results[2].monthlyStats[b].v
          IN bucket.emojisFormatted # <<>> /\ bucket.keywordsFormatted[1].value > 0

\* C8 is stated on one call of the forEach callback: lastMsg is the entry it
\* ran on, prevStats the accumulator before and monthlyStats after.
PhotoCountIn(stats, key) == IF Has(stats, key) THEN Get(stats, key).photoCount ELSE 0
MessageCountIn(stats, key) == IF Has(stats, key) THEN Get(stats, key).messageCount ELSE 0
KeywordCountIn(stats, key, kw) == IF Has(stats, key) THEN Get(Get(stats, key).keywords, kw) ELSE 0
EmojisIn(stats, key) == IF Has(stats, key) THEN Get(stats, key).emojis ELSE <<>>
KeySet(stats) == {stats[j].k : j \in 1..Len(stats)}
\* photo truthy, media_type == "photo", or photo_id truthy
SignalsPhoto(m) ==
    \/ Truthy(m.photo)
    \/ StrictEqStr(m.media_type, <<112, 104, 111, 116, 111>>)
    \/ Truthy(m.photo_id)
AfterCallback == pc = "forEach" /\ lastMsg.json = "object"

\* The callback's effect on entry m, whose month bucket is key.
FramesPhoto(m, key) ==
    /\ (IsMessageEntry(m) /\ SignalsPhoto(m) /\ ~Truthy(m.text)) =>
          /\ PhotoCountIn(monthlyStats, key) = PhotoCountIn(prevStats, key) + 1
          /\ MessageCountIn(monthlyStats, key) = MessageCountIn(prevStats, key) + 1
          /\ \A j \in 1..Len(LowerKeywords) :
                KeywordCountIn(monthlyStats, key, LowerKeywords[j])
                  = KeywordCountIn(prevStats, key, LowerKeywords[j])
          /\ EmojisIn(monthlyStats, key) = EmojisIn(prevStats, key)
          /\ KeySet(monthlyStats) = KeySet(prevStats) \cup {key}
          /\ \A k \in KeySet(prevStats) \ {key} :
                Get(monthlyStats, k) = Get(prevStats, k)
    /\ ~SignalsPhoto(m) =>
          \A k \in KeySet(monthlyStats) :
             PhotoCountIn(monthlyStats, k) = PhotoCountIn(prevStats, k)

\* C8: a "message" entry that signals a photo and has no text adds exactly 1
\* to photoCount and to messageCount of its own month bucket, leaves that
\* bucket's keyword and emoji counts and every other bucket as they were;
\* an entry with none of the three indicators changes no photoCount.
C8_PhotoFrame == AfterCallback => FramesPhoto(lastMsg, BucketKeyOf(lastMsg))

\* Entry m is a text-less message with exactly the indicators given.
SignalsOnly(m, byPhoto, byMediaType, byPhotoId) ==
    /\ IsMessageEntry(m)
    /\ ~Truthy(m.text)
    /\ Truthy(m.photo) = byPhoto
    /\ StrictEqStr(m.media_type, <<112, 104, 111, 116, 111>>) = byMediaType
    /\ Truthy(m.photo_id) = byPhotoId

\* C8 witness: the callback has run on three text-less entries in turn, the
\* first signalling a photo by photo alone, the second by photo_id alone and
\* the last by media_type alone, in a pass that already holds another
\* bucket than the last entry's.
C8_Witness ==
    /\ AfterCallback
    /\ Len(msgs) = 3
    /\ idx = 4
    /\ SignalsOnly(msgs[1], TRUE, FALSE, FALSE)
    /\ SignalsOnly(msgs[2], FALSE, FALSE, TRUE)
    /\ SignalsOnly(lastMsg, FALSE, TRUE, FALSE)
    /\ KeySet(prevStats) \ {BucketKeyOf(lastMsg)} # {}
    /\ PhotoCountIn(monthlyStats, BucketKeyOf(lastMsg)) = 1

\* The counts of a returned bucket against its entries and obs, their emoji
\* occurrences.
CountsOf(bucket, entries, obs) ==
    /\ \A j \in 1..Len(keywords) :
          Get(bucket.keywords, LowerKeywords[j]) = SumOccurrences(entries, keywords[j])
    /\ KeySet(bucket.emojis) = DistinctIn(obs)
    /\ \A e \in DistinctIn(obs) : Get(bucket.emojis, e) = TimesIn(obs, e)
EveryBucketCounts(dates) ==
    \A b \in 1..Len(LastResult.monthlyStats) :
        CountsOf(LastResult.monthlyStats[b].v,
                 EntriesOf(dates, LastResult.monthlyStats[b].v.month),
                 EmojiObs(dates, LastResult.monthlyStats[b].v.month))

\* C9: when analyzeChat has returned, every bucket's count of every fixed
\* keyword is the sum, over the bucket's "message" entries with text, of the
\* keyword's case-insensitive non-overlapping occurrences in the entry, and
\* its emoji counts are the numbers of occurrences of each emoji in those
\* entries; no other entry contributes.
C9_CountsAccumulate == Returned => EveryBucketCounts(EntryDates)

TwoEntriesOneBucket(dates) ==
    /\ Cardinality(EntriesOf(dates, LastResult.monthlyStats[1].k)) = 2
    /\ DistinctIn(EmojiObs(dates, LastResult.monthlyStats[1].k))
          \cap DistinctIn(EmojiObs(dates, LastResult.monthlyStats[2].k)) # {}

\* C9 witness: a returned bucket whose count of a keyword comes from two
\* entries, each with the keyword once in capitals and once with the
\* rounded о (U+1C82), beside a bucket of another month with one entry,
\* another keyword and an emoji of the first bucket.
C9_Witness ==
    /\ Returned
    /\ Len(LastResult.monthlyStats) = 2
    /\ Len(msgs) = 3
    /\ msgs[1].text = TextFolded
    /\ Get(LastResult.monthlyStats[1].v.keywords, LowerKeywords[1]) = 4
    /\ Get(LastResult.monthlyStats[2].v.keywords, LowerKeywords[1]) = 0
    /\ Get(LastResult.monthlyStats[2].v.keywords, LowerKeywords[4]) = 1
    /\ TwoEntriesOneBucket(EntryDates)

-----------------------------------------------------------------------------
(* Properties of the store and of the routes.                              *)

\* A year or month query with a well-formed key has been answered from what
\* findOne read.
AnsweredQuery ==
    /\ request.phase = "replied"
    /\ ~request.rejected
    /\ \/ request.route = "year" /\ IsYearFormat(request.param)
       \/ request.route = "month" /\ IsMonthFormat(request.param)
\* The buckets of the document the query read that match its key.
MatchingBuckets ==
    IF request.found = <<>> THEN {}
    ELSE {b \in 1..Len(request.found[1].monthlyStats) :
            IF request.route = "year"
            THEN StartsWith(request.found[1].monthlyStats[b].month, request.param \o <<45>>)
            ELSE request.found[1].monthlyStats[b].month = request.param}

\* C5: a year or month query with a well-formed key answers 404 whenever
\* findOne gave it no analysis document or a document with no bucket that
\* matches the key; it never answers successfully for a key that matches no
\* bucket.
C5_NoMatchIsNotFound ==
    (AnsweredQuery /\ MatchingBuckets = {}) => response.status = 404

\* C6: the analyze route calls parseTelegramChat when the file exists and
\* answers success once it completes, answers 400 without calling it when
\* the file does not exist, and answers 500 only when parseTelegramChat
\* itself failed.
C6_AnalyzeFileContract ==
    request.route = "analyze" =>
        /\ request.fileExists => request.parsed
        /\ (request.fileExists /\ request.parsed /\ ~request.parseFailed) =>
              response.status = 200
        /\ ~request.fileExists => (response.status = 400 /\ ~request.parsed)
        /\ response.status = 500 => (request.parsed /\ request.parseFailed)

SetMax(S) == CHOOSE x \in S : \A y \in S : x >= y
\* The analysis saved last for chat id.
LastSavedFor(id) == stored[SetMax({j \in 1..Len(stored) : stored[j].chatId = id})]
MonthsOf(analysis) == {analysis.monthlyStats[b].k : b \in 1..Len(analysis.monthlyStats)}

\* C10: the store holds one document per chatId saved so far and no other,
\* and each document's chatName, totalMessages and monthlyStats are those of
\* the analysis saved last for its chatId, bucket for bucket.
C10_UpsertLatest ==
    /\ \A i, j \in 1..Len(store) : store[i].chatId = store[j].chatId => i = j
    /\ {store[j].chatId : j \in 1..Len(store)} = {stored[j].chatId : j \in 1..Len(stored)}
    /\ \A j \in 1..Len(store) :
          LET a == LastSavedFor(store[j].chatId)
              doc == store[j]
          IN /\ doc.chatName = a.chatName
             /\ doc.totalMessages = a.totalMessages
             /\ Len(doc.monthlyStats) = Len(a.monthlyStats)
             /\ \A b \in 1..Len(a.monthlyStats) :
                   /\ doc.monthlyStats[b].month = a.monthlyStats[b].k
                   /\ doc.monthlyStats[b].messageCount = a.monthlyStats[b].v.messageCount
                   /\ doc.monthlyStats[b].photoCount = a.monthlyStats[b].v.photoCount
                   /\ doc.monthlyStats[b].keywords = a.monthlyStats[b].v.keywords
                   /\ doc.monthlyStats[b].keywordsFormatted
                        = a.monthlyStats[b].v.keywordsFormatted
                   /\ doc.monthlyStats[b].emojisFormatted
                        = a.monthlyStats[b].v.emojisFormatted

\* C10 witness: a chat was saved, then another chat twice, the second time
\* with another name and without one of the months of the first time.
C10_Witness ==
    /\ Len(stored) = 3
    /\ Len(store) = 2
    /\ stored[1].chatId # stored[2].chatId
    /\ stored[2].chatId = stored[3].chatId
    /\ stored[2].chatName # stored[3].chatName
    /\ MonthsOf(stored[2]) \ MonthsOf(stored[3]) # {}

====
